---- MODULE Spec2Model ----
(***************************************************************************)
(* A model of the multi-CPU operating-system emulator: the instruction     *)
(* codec, the parser, the storage and memory allocators, the PCB           *)
(* serialisation, and the update function of the emulator with one action  *)
(* per message.  Memory and storage are modelled byte by byte, because     *)
(* the program keeps its PCBs serialised inside the memory it also lets    *)
(* instructions write to.                                                  *)
(*                                                                         *)
(* Conventions.  Rust vectors are TLA+ sequences (index 1 is Rust index    *)
(* 0); the two byte arrays are functions over 0..size-1, so an address of  *)
(* the model is the address of the program.  Option::None is None.  A      *)
(* Rust panic (an index out of range, a todo!(), an unwrap of None, a      *)
(* copy_from_slice of unequal lengths) ends the process: the step sets     *)
(* panicked and changes nothing else, and no action is enabled after it.   *)
(* Every usize of the model is exact below 2^31 - 1 and saturates there.   *)
(***************************************************************************)
EXTENDS Integers, Sequences, FiniteSets, TLC

None == -1
Huge == 2147483646 + 1

(***************************************************************************)
(* emulator/pcb.rs: ProcessState and its u8 codes.                         *)
(***************************************************************************)
New == 1
Ready == 2
Running == 3
Blocked == 4
Terminated == 5

(***************************************************************************)
(* emulator/instruction.rs: Operation, Register, Interupt and their codes. *)
(***************************************************************************)
PARAM == 1
MOV == 2
SWAP == 3
CMP == 4
ADD == 5
SUB == 6
LOAD == 7
STORE == 8
INC == 9
DEC == 10
INT == 11
JMP == 12
JE == 13
JNE == 14
PUSH == 15
POP == 16

AX == 1
BX == 2
CX == 3
DX == 4

H09 == 1
H10 == 2
H20 == 3

\* Operation::from(u8): todo!() outside 1..=16.
OperationFromOk(i) == i \in 1..16

\* Register::from(u8): todo!() outside 1..=4.
RegisterFromOk(i) == i \in 1..4

\* Interupt::from(u8): todo!() outside 1..=3.
InteruptFromOk(i) == i \in 1..3

\* Operation::maybe_from: the pattern 1..16 excludes 16.
maybe_from(byte) == IF byte >= 1 /\ byte < 16 THEN byte ELSE None

\* Operation::maybe_into.
maybe_into(option) == IF option = None THEN 0 ELSE option

(***************************************************************************)
(* Operands are records [tag, a, b, c]: the variant and its payload, kept  *)
(* as the enum keeps them (a register or interrupt as its code).           *)
(***************************************************************************)
V0 == [tag |-> 0, a |-> 0, b |-> 0, c |-> 0]
V1(sing, num) == [tag |-> 1, a |-> sing, b |-> num, c |-> 0]
V2(register) == [tag |-> 2, a |-> register, b |-> 0, c |-> 0]
V3(interupt) == [tag |-> 3, a |-> interupt, b |-> 0, c |-> 0]
V4(p1, p2, p3) == [tag |-> 4, a |-> p1, b |-> p2, c |-> p3]
V5(register, num) == [tag |-> 5, a |-> register, b |-> num, c |-> 0]
V6(register1, register2) == [tag |-> 6, a |-> register1, b |-> register2, c |-> 0]

\* An encoding that forgets the third payload (not what the code does).
OperandsIntoNoThird(o) == <<o.tag, o.a, o.b, 0>>

\* From<Operands> for Vec<u8>.
OperandsInto(o) ==
    CASE o.tag = 0 -> <<0, 0, 0, 0>>
      [] o.tag = 1 -> <<1, o.a, o.b, 0>>
      [] o.tag = 2 -> <<2, o.a, 0, 0>>
      [] o.tag = 3 -> <<3, o.a, 0, 0>>
      [] o.tag = 4 -> <<4, o.a, o.b, o.c>>
      [] o.tag = 5 -> <<5, o.a, o.b, 0>>
      [] OTHER     -> <<6, o.a, o.b, 0>>

\* From<&[u8]> for Operands: whether it returns (an index out of range and a
\* todo!() panic).  bytes[k] of the source is bytes[k + 1] here.
OperandsFromOk(bytes) ==
    /\ Len(bytes) >= 1
    /\ CASE bytes[1] = 0 -> TRUE
         [] bytes[1] = 1 -> Len(bytes) >= 3
         [] bytes[1] = 2 -> Len(bytes) >= 2 /\ RegisterFromOk(bytes[2])
         [] bytes[1] = 3 -> Len(bytes) >= 2 /\ InteruptFromOk(bytes[2])
         [] bytes[1] = 4 -> Len(bytes) >= 4
         [] bytes[1] = 5 -> Len(bytes) >= 3 /\ RegisterFromOk(bytes[2])
         [] bytes[1] = 6 -> Len(bytes) >= 3 /\ RegisterFromOk(bytes[2])
                                            /\ RegisterFromOk(bytes[3])
         [] OTHER -> FALSE

\* From<&[u8]> for Operands, where it returns.
OperandsFrom(bytes) ==
    CASE bytes[1] = 0 -> V0
      [] bytes[1] = 1 -> V1(bytes[2], bytes[3])
      [] bytes[1] = 2 -> V2(bytes[2])
      [] bytes[1] = 3 -> V3(bytes[2])
      [] bytes[1] = 4 -> V4(bytes[2], bytes[3], bytes[4])
      [] bytes[1] = 5 -> V5(bytes[2], bytes[3])
      [] OTHER        -> V6(bytes[2], bytes[3])

\* From<&[u8]> for Instruction: whether it returns.
InstructionFromOk(bytes) ==
    /\ Len(bytes) >= 1
    /\ OperationFromOk(bytes[1])
    /\ OperandsFromOk(Tail(bytes))

\* From<&[u8]> for Instruction.
InstructionFrom(bytes) ==
    [operation |-> bytes[1], operands |-> OperandsFrom(Tail(bytes))]

\* From<Instruction> for Vec<u8>.
InstructionInto(i) == <<i.operation>> \o OperandsInto(i.operands)

\* to_bytes: each record is its length plus one, then the record.
RECURSIVE to_bytes(_)
to_bytes(instructions) ==
    IF instructions = <<>> THEN <<>>
    ELSE LET instruction_u8 == InstructionInto(Head(instructions))
         IN  <<Len(instruction_u8) + 1>> \o instruction_u8
                \o to_bytes(Tail(instructions))

(***************************************************************************)
(* Byte helpers.                                                           *)
(***************************************************************************)
\* &data[a..b] of a byte array: the range must be ordered and inside it.
SliceOk(data, size, a, b) == a <= b /\ b <= size

Slice(data, a, b) == [i \in 1..(b - a) |-> data[a + i - 1]]

\* data[a..a + bytes.len()].copy_from_slice(bytes), the range being inside.
Write(data, a, bytes) ==
    [i \in DOMAIN data |->
        IF i >= a /\ i < a + Len(bytes) THEN bytes[i - a + 1] ELSE data[i]]

Zeros(n) == [i \in 1..n |-> 0]

\* Vec::remove(i), i counted from 1.
RemoveAt(s, i) == SubSeq(s, 1, i - 1) \o SubSeq(s, i + 1, Len(s))

\* usize::to_ne_bytes (little endian) followed by retain(|x| x != 0): every
\* zero byte is dropped, not only the leading ones.
RECURSIVE NonZeroBytes(_)
NonZeroBytes(n) ==
    IF n = 0 THEN <<>>
    ELSE (IF n % 256 = 0 THEN <<>> ELSE <<n % 256>>) \o NonZeroBytes(n \div 256)

\* resize(8, 0) followed by usize::from_ne_bytes.
FromNe(bytes) ==
    LET b(i) == IF i <= Len(bytes) THEN bytes[i] ELSE 0
    IN  IF b(4) >= 128 \/ b(5) # 0 \/ b(6) # 0 \/ b(7) # 0 \/ b(8) # 0
        THEN Huge
        ELSE b(1) + 256 * b(2) + 65536 * b(3) + 16777216 * b(4)

(***************************************************************************)
(* emulator/pcb.rs                                                         *)
(***************************************************************************)
\* PCB::new(id): every other field is its Default.
PCBNew(id) ==
    [id |-> id, code_segment |-> 0, code_segment_size |-> 0,
     stack_segment |-> 0, stack_segment_size |-> 0, pc |-> 0,
     process_state |-> New, priority |-> 0,
     ax |-> 0, bx |-> 0, cx |-> 0, dx |-> 0, ac |-> 0, sp |-> 0,
     ir |-> None, z |-> FALSE]

\* PCB::code_segment(address, size): also sets pc.
PCBCodeSegment(pcb, address, size) ==
    [pcb EXCEPT !.code_segment = address, !.code_segment_size = size,
                !.pc = address]

\* PCB::stack_segment(address, size): sp is left alone.
PCBStackSegment(pcb, address, size) ==
    [pcb EXCEPT !.stack_segment = address, !.stack_segment_size = size]

\* One length-prefixed usize of the serialised PCB.
CompactField(n) == LET b == NonZeroBytes(n) IN <<Len(b) + 1>> \o b

\* From<PCB> for Vec<u8>.
PCBInto(pcb) ==
    CompactField(pcb.id)
        \o CompactField(pcb.code_segment)
        \o CompactField(pcb.code_segment_size)
        \o CompactField(pcb.stack_segment)
        \o CompactField(pcb.stack_segment_size)
        \o (IF pcb.pc = 0 THEN <<2, 0>> ELSE CompactField(pcb.pc))
        \o <<pcb.process_state, pcb.priority, pcb.ax, pcb.bx, pcb.cx, pcb.dx,
             pcb.ac, pcb.sp, maybe_into(pcb.ir), IF pcb.z THEN 1 ELSE 0>>

\* From<&[u8]> for PCB reads six length-prefixed fields.  len is the index
\* accumulator of the source: bytes[len] is the length byte of the field,
\* bytes[(len + 1)..(len + bytes[len])] its bytes, len + bytes[len] the next
\* accumulator (the id, read as bytes[1..bytes[0]], is the case len = 0).
FieldOk(bytes, len) ==
    /\ len < Len(bytes)
    /\ bytes[len + 1] >= 1
    /\ len + bytes[len + 1] <= Len(bytes)

FieldValue(bytes, len) == FromNe(SubSeq(bytes, len + 2, len + bytes[len + 1]))

FieldNext(bytes, len) == len + bytes[len + 1]

\* The accumulator after k fields, or None when a slice of the source panics.
RECURSIVE FieldAt(_, _)
FieldAt(bytes, k) ==
    IF k = 0 THEN 0
    ELSE LET len == FieldAt(bytes, k - 1)
         IN  IF len = None \/ ~FieldOk(bytes, len) THEN None
             ELSE FieldNext(bytes, len)

\* From<&[u8]> for PCB: whether it returns (ProcessState::from is a todo!()
\* outside 1..=5, and the ten fixed bytes must be there).
PCBFromOk(bytes) ==
    LET len == FieldAt(bytes, 6)
    IN  /\ len # None
        /\ len + 9 < Len(bytes)
        /\ bytes[len + 1] \in 1..5

\* From<&[u8]> for PCB, where it returns.
PCBFrom(bytes) ==
    LET len == FieldAt(bytes, 6)
    IN  [id |-> FieldValue(bytes, FieldAt(bytes, 0)),
         code_segment |-> FieldValue(bytes, FieldAt(bytes, 1)),
         code_segment_size |-> FieldValue(bytes, FieldAt(bytes, 2)),
         stack_segment |-> FieldValue(bytes, FieldAt(bytes, 3)),
         stack_segment_size |-> FieldValue(bytes, FieldAt(bytes, 4)),
         pc |-> FieldValue(bytes, FieldAt(bytes, 5)),
         process_state |-> bytes[len + 1],
         priority |-> bytes[len + 2],
         ax |-> bytes[len + 3], bx |-> bytes[len + 4],
         cx |-> bytes[len + 5], dx |-> bytes[len + 6],
         ac |-> bytes[len + 7], sp |-> bytes[len + 8],
         ir |-> maybe_from(bytes[len + 9]),
         z |-> bytes[len + 10] # 0]

(***************************************************************************)
(* emulator/memory.rs.  A Memory is a record [data, os_segment_size, used, *)
(* freed, pcb_table]; used and freed hold <<address, size>>, pcb_table     *)
(* holds <<pcb_id, address, size>>.  The operations return the new memory  *)
(* with the Result of the source (ok) and whether the call panicked.       *)
(***************************************************************************)
\* Memory::new.
MemoryNew(size, os_segment) ==
    [data |-> [i \in 0..(size - 1) |-> 0], os_segment_size |-> os_segment,
     used |-> <<>>, freed |-> <<>>, pcb_table |-> <<>>]

MemLen(memory) == Cardinality(DOMAIN memory.data)

\* The first freed region of exactly this size (0: none), as the loop of
\* store finds it.
FirstSameSize(freed, size) ==
    IF \E i \in 1..Len(freed) : freed[i][2] = size
    THEN CHOOSE i \in 1..Len(freed) :
            /\ freed[i][2] = size
            /\ \A j \in 1..(i - 1) : freed[j][2] # size
    ELSE 0

\* Memory::store with the first region placed at address 0, the way
\* Storage::store_files places the first file: the OS segment is forgotten.
MemoryStoreFromZero(memory, data, size) ==
    LET i == IF memory.freed # <<>> /\ memory.used # <<>>
             THEN FirstSameSize(memory.freed, size) ELSE 0
        fail == [panic |-> FALSE, ok |-> FALSE, memory |-> memory,
                 address |-> 0, size |-> 0]
        boom == [fail EXCEPT !.panic = TRUE]
        place(address) ==
            IF Len(data) # size \/ address + size > MemLen(memory) THEN boom
            ELSE [panic |-> FALSE, ok |-> TRUE,
                  memory |-> [memory EXCEPT
                      !.data = Write(memory.data, address, data),
                      !.used = Append(memory.used, <<address, size>>)],
                  address |-> address, size |-> size]
    IN  IF i # 0
        THEN \* Some memory space has been freed: reuse the region
             LET address == memory.freed[i][1]
             IN  IF Len(data) # size \/ address + size > MemLen(memory)
                 THEN boom
                 ELSE [panic |-> FALSE, ok |-> TRUE,
                       memory |-> [memory EXCEPT
                           !.data = Write(memory.data, address, data),
                           !.used = Append(memory.used, memory.freed[i]),
                           !.freed = RemoveAt(memory.freed, i)],
                       address |-> address, size |-> memory.freed[i][2]]
        ELSE IF memory.used = <<>>
        THEN \* No memory has been used
             IF MemLen(memory) > size THEN place(0) ELSE fail
        ELSE \* After the last used region
             LET last == memory.used[Len(memory.used)]
                 next_address == last[1] + last[2]
             IN  IF MemLen(memory) < next_address THEN boom
                 ELSE IF MemLen(memory) - next_address > size
                 THEN place(next_address)
                 ELSE fail

\* Memory::store(data, size).
MemoryStore(memory, data, size) ==
    LET i == IF memory.freed # <<>> /\ memory.used # <<>>
             THEN FirstSameSize(memory.freed, size) ELSE 0
        fail == [panic |-> FALSE, ok |-> FALSE, memory |-> memory,
                 address |-> 0, size |-> 0]
        boom == [fail EXCEPT !.panic = TRUE]
        place(address) ==
            IF Len(data) # size \/ address + size > MemLen(memory) THEN boom
            ELSE [panic |-> FALSE, ok |-> TRUE,
                  memory |-> [memory EXCEPT
                      !.data = Write(memory.data, address, data),
                      !.used = Append(memory.used, <<address, size>>)],
                  address |-> address, size |-> size]
    IN  IF i # 0
        THEN \* Some memory space has been freed: reuse the region
             LET address == memory.freed[i][1]
             IN  IF Len(data) # size \/ address + size > MemLen(memory)
                 THEN boom
                 ELSE [panic |-> FALSE, ok |-> TRUE,
                       memory |-> [memory EXCEPT
                           !.data = Write(memory.data, address, data),
                           !.used = Append(memory.used, memory.freed[i]),
                           !.freed = RemoveAt(memory.freed, i)],
                       address |-> address, size |-> memory.freed[i][2]]
        ELSE IF memory.used = <<>>
        THEN \* No memory has been used
             IF MemLen(memory) < memory.os_segment_size THEN boom
             ELSE IF MemLen(memory) - memory.os_segment_size > size
             THEN place(memory.os_segment_size)
             ELSE fail
        ELSE \* After the last used region
             LET last == memory.used[Len(memory.used)]
                 next_address == last[1] + last[2]
             IN  IF MemLen(memory) < next_address THEN boom
                 ELSE IF MemLen(memory) - next_address > size
                 THEN place(next_address)
                 ELSE fail

\* Memory::free_memory(address): always Ok(()).
MemoryFree(memory, address) ==
    IF \E k \in 1..Len(memory.used) : memory.used[k][1] = address
    THEN LET position == CHOOSE k \in 1..Len(memory.used) :
                            /\ memory.used[k][1] = address
                            /\ \A j \in 1..(k - 1) : memory.used[j][1] # address
             space == memory.used[position]
             used == RemoveAt(memory.used, position)
         IN  [memory EXCEPT
                !.data = Write(memory.data, space[1], Zeros(space[2])),
                !.used = used,
                !.freed = IF used = <<>> THEN <<>>
                          ELSE Append(memory.freed, space)]
    ELSE memory

\* Memory::store_pcb(pcb).
MemoryStorePcb(memory, pcb) ==
    LET bytes == PCBInto(pcb)
        fail == [panic |-> FALSE, ok |-> FALSE, memory |-> memory]
        boom == [fail EXCEPT !.panic = TRUE]
        place(address) ==
            IF address + Len(bytes) > MemLen(memory) THEN boom
            ELSE [panic |-> FALSE, ok |-> TRUE,
                  memory |-> [memory EXCEPT
                      !.data = Write(memory.data, address, bytes),
                      !.pcb_table = Append(memory.pcb_table,
                                           <<pcb.id, address, Len(bytes)>>)]]
    IN  IF memory.pcb_table = <<>>
        THEN IF memory.os_segment_size > Len(bytes) THEN place(0) ELSE fail
        ELSE LET last == memory.pcb_table[Len(memory.pcb_table)]
                 next_address == last[2] + last[3]
             IN  IF memory.os_segment_size < next_address THEN boom
                 ELSE IF memory.os_segment_size - next_address > Len(bytes)
                 THEN place(next_address)
                 ELSE fail

\* A last_pcb_id that is None of every table (not what the code does).
LastPcbIdNone(memory) == 0

\* Memory::last_pcb_id.
last_pcb_id(memory) ==
    IF memory.pcb_table = <<>> THEN 0
    ELSE memory.pcb_table[Len(memory.pcb_table)][1]

\* Memory::free_size: the zero bytes of the whole array, less the OS segment.
free_size(memory) ==
    LET zeros == Cardinality({i \in DOMAIN memory.data : memory.data[i] = 0})
    IN  IF zeros > memory.os_segment_size
        THEN zeros - memory.os_segment_size ELSE 0

\* &memory.data[address..address + size] of a pcb_table entry, parsed.
EntryOk(memory, address, size) ==
    /\ address + size <= MemLen(memory)
    /\ PCBFromOk(Slice(memory.data, address, address + size))

EntryPCB(memory, address, size) ==
    PCBFrom(Slice(memory.data, address, address + size))

(***************************************************************************)
(* emulator/storage.rs.  A Storage is a record [data, used, freed]; used   *)
(* and freed hold <<name, address, size>>.                                 *)
(***************************************************************************)
\* Storage::new.
StorageNew(size) ==
    [data |-> [i \in 0..(size - 1) |-> 0], used |-> <<>>, freed |-> <<>>]

StoLen(storage) == Cardinality(DOMAIN storage.data)

\* A store_files that fails and wipes the disk (not what the code does).
StoreFailWiped(storage) ==
    [panic |-> FALSE, ok |-> FALSE, storage |-> StorageNew(StoLen(storage))]

\* return Err(Error::NotEnoughStorage(..)): the storage is as it was.
StoreFail(storage) ==
    [panic |-> FALSE, ok |-> FALSE, storage |-> storage]

\* Storage::store_files(file_name, size, data).
StoreFile(storage, file_name, size, data) ==
    LET fail == StoreFail(storage)
        boom == [fail EXCEPT !.panic = TRUE]
        place(address) ==
            IF Len(data) # size \/ address + size > StoLen(storage) THEN boom
            ELSE [panic |-> FALSE, ok |-> TRUE,
                  storage |-> [storage EXCEPT
                      !.data = Write(storage.data, address, data),
                      !.used = Append(storage.used,
                                      <<file_name, address, size>>)]]
    IN  IF storage.freed # <<>> /\ storage.used # <<>>
        THEN \* only a freed region of the same size is looked for
             IF \E i \in 1..Len(storage.freed) : storage.freed[i][3] = size
             THEN LET i == CHOOSE i \in 1..Len(storage.freed) :
                              /\ storage.freed[i][3] = size
                              /\ \A j \in 1..(i - 1) : storage.freed[j][3] # size
                      address == storage.freed[i][2]
                  IN  IF Len(data) # size THEN boom
                      ELSE [panic |-> FALSE, ok |-> TRUE,
                            storage |-> [storage EXCEPT
                                !.data = Write(storage.data, address, data),
                                !.used = Append(storage.used,
                                                <<file_name, address, size>>),
                                !.freed = RemoveAt(storage.freed, i)]]
             ELSE [panic |-> FALSE, ok |-> TRUE, storage |-> storage]
        ELSE IF storage.used = <<>>
        THEN IF StoLen(storage) > size THEN place(0) ELSE fail
        ELSE LET last == storage.used[Len(storage.used)]
                 next_address == last[2] + last[3]
             IN  IF StoLen(storage) < next_address THEN boom
                 ELSE IF StoLen(storage) - next_address > size
                 THEN place(next_address)
                 ELSE fail

(***************************************************************************)
(* parser.rs.  A source file is a sequence of bytes; the words the parser  *)
(* matches are spelled as their ASCII codes.                               *)
(***************************************************************************)
StrPARAM == <<80, 65, 82, 65, 77>>
StrMOV == <<77, 79, 86>>
StrSWAP == <<83, 87, 65, 80>>
StrCMP == <<67, 77, 80>>
StrADD == <<65, 68, 68>>
StrSUB == <<83, 85, 66>>
StrLOAD == <<76, 79, 65, 68>>
StrSTORE == <<83, 84, 79, 82, 69>>
StrINC == <<73, 78, 67>>
StrDEC == <<68, 69, 67>>
StrINT == <<73, 78, 84>>
StrJMP == <<74, 77, 80>>
StrJE == <<74, 69>>
StrJNE == <<74, 78, 69>>
StrPUSH == <<80, 85, 83, 72>>
StrPOP == <<80, 79, 80>>
StrAX == <<65, 88>>
StrBX == <<66, 88>>
StrCX == <<67, 88>>
StrDX == <<68, 88>>
Str09H == <<48, 57, 72>>
Str10H == <<49, 48, 72>>
Str20H == <<50, 48, 72>>

\* Operation::from_str (None: Err).
OperationFromStr(s) ==
    CASE s = StrPARAM -> PARAM [] s = StrMOV -> MOV [] s = StrSWAP -> SWAP
      [] s = StrCMP -> CMP [] s = StrADD -> ADD [] s = StrSUB -> SUB
      [] s = StrLOAD -> LOAD [] s = StrSTORE -> STORE [] s = StrINC -> INC
      [] s = StrDEC -> DEC [] s = StrINT -> INT [] s = StrJMP -> JMP
      [] s = StrJE -> JE [] s = StrJNE -> JNE [] s = StrPUSH -> PUSH
      [] s = StrPOP -> POP [] OTHER -> None

\* Register::from_str (None: Err); REGISTERS.contains(s) is the same test.
RegisterFromStr(s) ==
    CASE s = StrAX -> AX [] s = StrBX -> BX [] s = StrCX -> CX
      [] s = StrDX -> DX [] OTHER -> None

\* Interupt::from_str (None: Err); INTERUPTS.contains(s) is the same test.
InteruptFromStr(s) ==
    CASE s = Str09H -> H09 [] s = Str10H -> H10 [] s = Str20H -> H20
      [] OTHER -> None

\* str::replace(c, ""): every occurrence of the byte is removed.
RECURSIVE Remove(_, _)
Remove(s, c) ==
    IF s = <<>> THEN <<>>
    ELSE (IF Head(s) = c THEN <<>> ELSE <<Head(s)>>) \o Remove(Tail(s), c)

\* str::split(c): between every two separators a piece, empty ones too.
RECURSIVE Split(_, _)
Split(s, c) ==
    IF \E k \in 1..Len(s) : s[k] = c
    THEN LET k == CHOOSE k \in 1..Len(s) :
                    s[k] = c /\ \A j \in 1..(k - 1) : s[j] # c
         IN  <<SubSeq(s, 1, k - 1)>> \o Split(SubSeq(s, k + 1, Len(s)), c)
    ELSE <<s>>

WhiteSpace == {9, 10, 11, 12, 13, 32}

\* str::trim.
Trim(s) ==
    IF \A k \in 1..Len(s) : s[k] \in WhiteSpace THEN <<>>
    ELSE LET a == CHOOSE k \in 1..Len(s) :
                    s[k] \notin WhiteSpace
                    /\ \A j \in 1..(k - 1) : s[j] \in WhiteSpace
             b == CHOOSE k \in 1..Len(s) :
                    s[k] \notin WhiteSpace
                    /\ \A j \in (k + 1)..Len(s) : s[j] \in WhiteSpace
         IN  SubSeq(s, a, b)

\* str::lines: split at "\n", no last empty line, a final "\r" dropped.
Lines(s) ==
    LET parts == Split(s, 10)
        kept == IF parts[Len(parts)] = <<>>
                THEN SubSeq(parts, 1, Len(parts) - 1) ELSE parts
        strip(l) == IF l # <<>> /\ l[Len(l)] = 13
                    THEN SubSeq(l, 1, Len(l) - 1) ELSE l
    IN  [k \in 1..Len(kept) |-> strip(kept[k])]

\* The value of a string of decimal digits, saturating above 255.
RECURSIVE Decimal(_, _)
Decimal(s, acc) ==
    IF s = <<>> THEN acc
    ELSE Decimal(Tail(s), IF acc > 255 THEN acc ELSE 10 * acc + (Head(s) - 48))

\* str::parse::<u8> (None: Err): an optional "+", then digits, at most 255.
ParseU8(s) ==
    LET digits == IF s # <<>> /\ s[1] = 43 THEN Tail(s) ELSE s
    IN  IF digits = <<>> \/ \E k \in 1..Len(digits) : digits[k] \notin 48..57
        THEN None
        ELSE IF Decimal(digits, 0) > 255 THEN None ELSE Decimal(digits, 0)

\* The results of validate_operators and read_file.
ParseErr(e) == [panic |-> FALSE, ok |-> FALSE, err |-> e, value |-> <<>>]
ParseOk(v) == [panic |-> FALSE, ok |-> TRUE, err |-> "", value |-> v]
ParsePanic == [panic |-> TRUE, ok |-> FALSE, err |-> "", value |-> <<>>]

\* replace("-", "") then replace("+", "") then parse::<u8>().
ParseUnsigned(s) == ParseU8(Remove(Remove(s, 45), 43))

\* validate_operators(row, operation, operators).
validate_operators(operation, operators) ==
    LET n == Len(operators)
        isReg(k) == RegisterFromStr(operators[k]) # None
    IN
    CASE operation = PARAM ->
            IF n > 3 \/ n = 0 THEN ParseErr("InvalidNumberOperands")
            ELSE IF \E k \in 1..n : isReg(k) THEN ParseErr("InvalidOperand")
            ELSE IF ParseUnsigned(operators[1]) = None
                 THEN ParseErr("ParseIntError")
            ELSE IF n < 2 THEN ParsePanic   \* operators[1]
            ELSE IF ParseUnsigned(operators[2]) = None
                 THEN ParseErr("ParseIntError")
            ELSE IF n < 3 THEN ParsePanic   \* operators[2]
            ELSE IF ParseUnsigned(operators[3]) = None
                 THEN ParseErr("ParseIntError")
            ELSE ParseOk(V4(ParseUnsigned(operators[1]),
                            ParseUnsigned(operators[2]),
                            ParseUnsigned(operators[3])))
      [] operation = MOV ->
            IF n # 2 THEN ParseErr("InvalidNumberOperands")
            ELSE IF ~isReg(1) THEN ParseErr("InvalidOperand")
            ELSE IF isReg(2)
                 THEN ParseOk(V6(RegisterFromStr(operators[1]),
                                 RegisterFromStr(operators[2])))
            ELSE IF ParseUnsigned(operators[2]) = None
                 THEN ParseErr("ParseIntError")
            ELSE ParseOk(V5(RegisterFromStr(operators[1]),
                            ParseUnsigned(operators[2])))
      [] operation \in {SWAP, CMP} ->
            IF n # 2 THEN ParseErr("InvalidNumberOperands")
            ELSE IF \E k \in 1..n : ~isReg(k) THEN ParseErr("InvalidOperand")
            ELSE ParseOk(V6(RegisterFromStr(operators[1]),
                            RegisterFromStr(operators[2])))
      [] operation \in {JMP, JE, JNE} ->
            IF n # 1 THEN ParseErr("InvalidNumberOperands")
            ELSE IF isReg(1) THEN ParseErr("InvalidOperand")
            ELSE IF \E k \in 1..Len(operators[1]) : operators[1][k] = 45
                 THEN IF ParseU8(Remove(operators[1], 45)) = None
                      THEN ParseErr("ParseIntError")
                      ELSE ParseOk(V1(1, ParseU8(Remove(operators[1], 45))))
            ELSE IF ParseU8(Remove(operators[1], 43)) = None
                 THEN ParseErr("ParseIntError")
            ELSE ParseOk(V1(0, ParseU8(Remove(operators[1], 43))))
      [] operation \in {ADD, SUB, LOAD, STORE, PUSH, POP} ->
            IF n # 1 THEN ParseErr("InvalidNumberOperands")
            ELSE IF ~isReg(1) THEN ParseErr("InvalidOperand")
            ELSE ParseOk(V2(RegisterFromStr(operators[1])))
      [] operation = INT ->
            IF n # 1 THEN ParseErr("InvalidNumberOperands")
            ELSE IF InteruptFromStr(operators[1]) = None
                 THEN ParseErr("InvalidOperand")
            ELSE ParseOk(V3(InteruptFromStr(operators[1])))
      [] OTHER -> \* INC | DEC
            IF n > 1 THEN ParseErr("InvalidNumberOperands")
            ELSE IF n = 1 /\ ~isReg(1) THEN ParseErr("InvalidOperand")
            ELSE IF n = 1 THEN ParseOk(V2(RegisterFromStr(operators[1])))
            ELSE ParseOk(V0)

\* The loop of read_file over the lines still to read; done holds the
\* instructions parsed so far.
RECURSIVE ReadLines(_, _)
ReadLines(lines, done) ==
    IF lines = <<>> THEN ParseOk(done)
    ELSE LET instruction == Split(Remove(Head(lines), 44), 32)
             operation == Head(instruction)
             operands == validate_operators(OperationFromStr(operation),
                                            Tail(instruction))
         IN  IF operation = <<>> THEN ReadLines(Tail(lines), done)
             ELSE IF OperationFromStr(operation) = None
                  THEN ParseErr("InvalidOperation")
             ELSE IF ~operands.ok THEN operands
             ELSE ReadLines(Tail(lines),
                     Append(done, [operation |-> OperationFromStr(operation),
                                   operands |-> operands.value]))

\* read_file(stream).  std::str::from_utf8 accepts every sequence of bytes
\* below 128 and no sequence holding a byte of 248 or more; the files of the
\* model hold no other byte.
read_file(stream) ==
    IF \E k \in 1..Len(stream) : stream[k] >= 128
    THEN ParseErr("Utf8Error")
    ELSE ReadLines(Lines(Trim(stream)), <<>>)

(***************************************************************************)
(* emulator/cpu.rs.  start_time holds whether the Instant is set.          *)
(***************************************************************************)
\* CPU::new.
CPUNew ==
    [ax |-> 0, bx |-> 0, cx |-> 0, dx |-> 0, ac |-> 0, pc |-> 0, sp |-> 0,
     ir |-> None, z |-> FALSE, start_time |-> FALSE]

\* The register an instruction names.
RegGet(cpu, r) ==
    CASE r = AX -> cpu.ax [] r = BX -> cpu.bx [] r = CX -> cpu.cx
      [] OTHER -> cpu.dx

RegSet(cpu, r, v) ==
    CASE r = AX -> [cpu EXCEPT !.ax = v] [] r = BX -> [cpu EXCEPT !.bx = v]
      [] r = CX -> [cpu EXCEPT !.cx = v] [] OTHER -> [cpu EXCEPT !.dx = v]

\* u8::to_string: the decimal digits, as bytes.
U8ToString(n) ==
    IF n >= 100
    THEN <<48 + (n \div 100), 48 + ((n \div 10) % 10), 48 + (n % 10)>>
    ELSE IF n >= 10 THEN <<48 + (n \div 10), 48 + (n % 10)>>
    ELSE <<48 + n>>

\* The usize to u8 narrowing of the CPU's sp into the PCB's sp.
ToU8(n) == IF n = Huge THEN 255 ELSE n % 256

(***************************************************************************)
(* main.rs, Message::Tick: decode and execute of one instruction.  The     *)
(* result holds the cpu, the memory bytes and the display after it, ret    *)
(* (the message an early return of the handler carries, or "") and panic.  *)
(* Integer overflow panics in a build with overflow checks and wraps in    *)
(* one without: wrap tells which.                                          *)
(***************************************************************************)
ExecResult(cpu, data, display, ret) ==
    [panic |-> FALSE, cpu |-> cpu, data |-> data, display |-> display,
     ret |-> ret]

ExecPanic(cpu, data, display) ==
    [panic |-> TRUE, cpu |-> cpu, data |-> data, display |-> display,
     ret |-> ""]

\* cpu.ac += v and cpu.ac -= v (v negative) on a u8.
ExecArith(cpu, data, display, v, wrap) ==
    LET sum == cpu.ac + v
    IN  IF sum \in 0..255
        THEN ExecResult([cpu EXCEPT !.ac = sum], data, display, "")
        ELSE IF wrap
        THEN ExecResult([cpu EXCEPT !.ac = sum % 256], data, display, "")
        ELSE ExecPanic(cpu, data, display)

\* cpu.pc += (7 * num) as usize and cpu.pc -= (7 * num) as usize: the
\* product is a u8, the difference a usize.  A pc below zero stands for the
\* wrapped value; the pc += 6 that ends the step wraps it back.
ExecJump(cpu, data, display, s, num, wrap) ==
    LET product == 7 * num
        stride == product % 256
    IN  IF product > 255 /\ ~wrap THEN ExecPanic(cpu, data, display)
        ELSE IF s = 0
        THEN ExecResult([cpu EXCEPT !.pc = cpu.pc + stride], data, display, "")
        ELSE IF s = 1
        THEN IF cpu.pc < stride /\ ~wrap THEN ExecPanic(cpu, data, display)
             ELSE ExecResult([cpu EXCEPT !.pc = cpu.pc - stride],
                             data, display, "")
        ELSE ExecResult(cpu, data, display, "")

\* self.memory.data[cpu.sp] = v; cpu.sp += 1.
ExecPush(r, size, v) ==
    IF r.panic THEN r
    ELSE IF r.cpu.sp >= size THEN [r EXCEPT !.panic = TRUE]
    ELSE [r EXCEPT !.data = [r.data EXCEPT ![r.cpu.sp] = v],
                   !.cpu = [r.cpu EXCEPT !.sp = r.cpu.sp + 1]]

\* reg = self.memory.data[cpu.sp]; cpu.sp -= 1: the read comes first.
ExecPop(cpu, data, display, size, reg, wrap) ==
    IF cpu.sp >= size THEN ExecPanic(cpu, data, display)
    ELSE IF cpu.sp = 0 /\ ~wrap THEN ExecPanic(cpu, data, display)
    ELSE ExecResult([RegSet(cpu, reg, data[cpu.sp]) EXCEPT
                        !.sp = IF cpu.sp = 0 THEN Huge ELSE cpu.sp - 1],
                    data, display, "")

\* The match on instruction.operation.  An operand variant the arm does not
\* expect executes nothing.
Execute(cpu, data, display, size, instruction, wrap) ==
    LET op == instruction.operation
        o == instruction.operands
        same == ExecResult(cpu, data, display, "")
    IN
    CASE op = LOAD ->
            IF o.tag = 2
            THEN ExecResult([cpu EXCEPT !.ac = RegGet(cpu, o.a)],
                            data, display, "")
            ELSE same
      [] op = STORE ->
            IF o.tag = 2
            THEN ExecResult(RegSet(cpu, o.a, cpu.ac), data, display, "")
            ELSE same
      [] op = MOV ->
            IF o.tag = 5
            THEN ExecResult(RegSet(cpu, o.a, o.b), data, display, "")
            ELSE IF o.tag = 6
            THEN ExecResult(RegSet(cpu, o.a, RegGet(cpu, o.b)),
                            data, display, "")
            ELSE same
      [] op = ADD ->
            IF o.tag = 2
            THEN ExecArith(cpu, data, display, RegGet(cpu, o.a), wrap)
            ELSE same
      [] op = SUB ->
            IF o.tag = 2
            THEN ExecArith(cpu, data, display, 0 - RegGet(cpu, o.a), wrap)
            ELSE same
      [] op = INC ->
            IF o.tag = 0 THEN ExecArith(cpu, data, display, 1, wrap)
            ELSE IF o.tag = 2
            THEN ExecArith(cpu, data, display, RegGet(cpu, o.a), wrap)
            ELSE same
      [] op = DEC ->
            IF o.tag = 0 THEN ExecArith(cpu, data, display, 0 - 1, wrap)
            ELSE IF o.tag = 2
            THEN ExecArith(cpu, data, display, 0 - RegGet(cpu, o.a), wrap)
            ELSE same
      [] op = SWAP ->
            IF o.tag = 6
            THEN ExecResult(RegSet(RegSet(cpu, o.a, RegGet(cpu, o.b)),
                                   o.b, RegGet(cpu, o.a)),
                            data, display, "")
            ELSE same
      [] op = INT ->
            IF o.tag = 3
            THEN CASE o.a = H20 -> ExecResult(cpu, data, display, "Terminated")
                   [] o.a = H10 ->
                        ExecResult(cpu, data, U8ToString(cpu.dx), "")
                   [] OTHER -> ExecResult(cpu, data, display, "Blocked")
            ELSE same
      [] op = JMP ->
            IF o.tag = 1 THEN ExecJump(cpu, data, display, o.a, o.b, wrap)
            ELSE same
      [] op = JE ->
            IF cpu.z /\ o.tag = 1
            THEN ExecJump(cpu, data, display, o.a, o.b, wrap)
            ELSE same
      [] op = JNE ->
            IF ~cpu.z /\ o.tag = 1
            THEN ExecJump(cpu, data, display, o.a, o.b, wrap)
            ELSE same
      [] op = PUSH ->
            IF o.tag = 2 THEN ExecPush(same, size, RegGet(cpu, o.a))
            ELSE same
      [] op = POP ->
            IF o.tag = 2 THEN ExecPop(cpu, data, display, size, o.a, wrap)
            ELSE same
      [] op = PARAM ->
            IF o.tag = 4
            THEN LET r1 == IF o.a # 0 THEN ExecPush(same, size, o.a) ELSE same
                     r2 == IF o.b # 0 THEN ExecPush(r1, size, o.b) ELSE r1
                 IN  IF o.c # 0 THEN ExecPush(r2, size, o.c) ELSE r2
            ELSE same
      [] OTHER -> \* CMP: no arm for a register compared with itself
            IF o.tag = 6 /\ o.a # o.b
            THEN ExecResult([cpu EXCEPT
                                !.z = (RegGet(cpu, o.a) = RegGet(cpu, o.b))],
                            data, display, "")
            ELSE same

(***************************************************************************)
(* Bounds of the model.                                                    *)
(***************************************************************************)
\* Bytes of main memory, of its OS segment and of the storage disk.
MemorySize == 142
OsSegment == 70
StorageSize == 80
\* The quantum pick list offers 1..MaxQuantum.
MaxQuantum == 2
\* The tick counter stops at MaxTicks and the waiting queue at MaxQueue
\* entries.
MaxTicks == 4
MaxQueue == 2

(***************************************************************************)
(* The files the user can pick.  A file is its name and its bytes.         *)
(***************************************************************************)
Sp == <<32>>
Nl == <<10>>

\* MOV AX 3 / LOAD AX / INT 20H
FilePlain ==
    [name |-> "plain",
     data |-> StrMOV \o Sp \o StrAX \o Sp \o <<51>> \o Nl
              \o StrLOAD \o Sp \o StrAX \o Nl
              \o StrINT \o Sp \o Str20H]

\* MOV BX 7 / PUSH BX / INT 20H
FilePush ==
    [name |-> "push",
     data |-> StrMOV \o Sp \o StrBX \o Sp \o <<55>> \o Nl
              \o StrPUSH \o Sp \o StrBX \o Nl
              \o StrINT \o Sp \o Str20H]

\* INT 09H / INT 10H / INT 20H
FileInput ==
    [name |-> "input",
     data |-> StrINT \o Sp \o Str09H \o Nl
              \o StrINT \o Sp \o Str10H \o Nl
              \o StrINT \o Sp \o Str20H]

\* MOV BX 1 / JMP 1 / INT 20H
FileJump ==
    [name |-> "jump",
     data |-> StrMOV \o Sp \o StrBX \o Sp \o <<49>> \o Nl
              \o StrJMP \o Sp \o <<49>> \o Nl
              \o StrINT \o Sp \o Str20H]

\* MOV AX 3 / INT 20H
FileShort ==
    [name |-> "short",
     data |-> StrMOV \o Sp \o StrAX \o Sp \o <<51>> \o Nl
              \o StrINT \o Sp \o Str20H]

\* FOO: no such operation
FileBad == [name |-> "bad", data |-> <<70, 79, 79>>]

\* INT 20H
FileHalt == [name |-> "halt", data |-> StrINT \o Sp \o Str20H]

\* What the user does with the file dialog in one run: the picks, in
\* order, each the files of one StoreFiles message.
Scripts ==
    { << <<FilePlain, FileJump, FilePush>> >>,
      << <<FileInput>>, <<FileShort>> >>,
      << <<FilePlain, FileBad>> >>,
      << <<FilePlain, FileShort>>, <<FileHalt>> >> }

\* What the user can type into the input field.
Inputs == { <<52, 50>>, <<51, 48, 48>> }

Schedulers == {"FCFS", "SJF", "SRT", "RR", "HRRN"}

\* The cpu_quantity of the configurations the model runs.
CpuQuantities == {1, 2}

(***************************************************************************)
(* State.  The fields of Emulator keep their names; theme, show_stats and  *)
(* the wall-clock Instants (start_time, total_start_time) touch nothing    *)
(* but what is drawn and are left out.  picks holds the picks the user has *)
(* still to make; pending is the queue of messages the handlers' returned  *)
(* Tasks have produced and the runtime has not yet delivered; panicked     *)
(* holds whether a handler has panicked.  idle observes the round robin:   *)
(* for each process of the PCB table, the Ticks that have run to their end *)
(* since it last executed an instruction, counted while the discipline is  *)
(* RR and from the last event that changed which processes can run.        *)
(***************************************************************************)
VARIABLES cpus, stats_data, mode, memory, storage, config, display_content,
          waiting_queue, loaded_files, diagram, quantum, counter,
          picks, pending, panicked, idle

vars ==
    <<cpus, stats_data, mode, memory, storage, config, display_content,
      waiting_queue, loaded_files, diagram, quantum, counter,
      picks, pending, panicked, idle>>

\* No Tick counted yet, for the processes of the PCB table.
IdleNew(mem) ==
    [p \in {mem.pcb_table[i][1] : i \in 1..Len(mem.pcb_table)} |-> 0]

\* The observation of one step.  A Tick that runs to its end has executed
\* one instruction of every process bound to a CPU; a step of kind "keep"
\* leaves the processes that can run as they are unless it adds a PCB.
Observe(kind) ==
    idle' =
        IF config'.scheduler # "RR" THEN IdleNew(memory')
        ELSE IF kind = "tick" /\ counter' = counter + 1
        THEN [p \in DOMAIN idle |->
                 IF \E c \in DOMAIN cpus : cpus[c].p = p THEN 0
                 ELSE idle[p] + 1]
        ELSE IF kind = "keep" /\ memory'.pcb_table = memory.pcb_table
        THEN idle
        ELSE IdleNew(memory')

\* Config::default, with the sizes of the model.
ConfigDefault(cpu_quantity) ==
    [memory |-> MemorySize, storage |-> StorageSize,
     os_segment |-> OsSegment, cpu_quantity |-> cpu_quantity,
     scheduler |-> "FCFS"]

\* The cpus vector of Emulator::new and of ResetPressed.
CpusNew(n) == [i \in 0..(n - 1) |-> [cpu |-> CPUNew, p |-> None]]

\* Emulator::new.
Init ==
    /\ \E n \in CpuQuantities : config = ConfigDefault(n)
    /\ cpus = CpusNew(config.cpu_quantity)
    /\ stats_data = <<>>
    /\ mode = "None"
    /\ memory = MemoryNew(config.memory, config.os_segment)
    /\ storage = StorageNew(config.storage)
    /\ display_content = <<>>
    /\ waiting_queue = <<>>
    /\ loaded_files = <<>>
    /\ diagram = <<>>
    /\ quantum = 1
    /\ counter = 0
    /\ picks \in Scripts
    /\ pending = <<>>
    /\ panicked = FALSE
    /\ idle = IdleNew(memory)

\* A message; cpu and pcb are None and <<>> where the message has none.
Msg(type, cpu, pcb) == [type |-> type, cpu |-> cpu, pcb |-> pcb]

MsgScheduler == Msg("Scheduler", None, <<>>)

MsgDialogResult == Msg("DialogResult", None, <<>>)

MsgNone == Msg("", None, <<>>)

\* Timing::new.
TimingNew(p_id, burst) ==
    [p_id |-> p_id, c_id |-> None, burst |-> burst, start |-> FALSE,
     end_time |-> FALSE, execution |-> FALSE, remaining_burst |-> burst]

\* The pcb_table entries with the given id, in table order.
TableIndex(mem, id) ==
    IF \E i \in 1..Len(mem.pcb_table) : mem.pcb_table[i][1] = id
    THEN CHOOSE i \in 1..Len(mem.pcb_table) :
            /\ mem.pcb_table[i][1] = id
            /\ \A j \in 1..(i - 1) : mem.pcb_table[j][1] # id
    ELSE 0

\* The first Timing of the diagram with the given p_id, or 0.
TimingIndex(d, p_id) ==
    IF \E i \in 1..Len(d) : d[i].p_id = p_id
    THEN CHOOSE i \in 1..Len(d) :
            /\ d[i].p_id = p_id
            /\ \A j \in 1..(i - 1) : d[j].p_id # p_id
    ELSE 0

(***************************************************************************)
(* main.rs, Emulator::create_pcbs: the files of storage.used are taken in  *)
(* order from the k-th on.  some tells whether the function returns Some,  *)
(* task holds the messages of the Task it then returns.                    *)
(***************************************************************************)
RECURSIVE create_pcbs(_, _, _, _, _)

\* What create_pcbs returns with, and the state it leaves.
CreateReturn(task, sto, mem, loaded, diag) ==
    [panic |-> FALSE, some |-> task # <<>>, task |-> task, storage |-> sto,
     memory |-> mem, loaded_files |-> loaded, diagram |-> diag]

CreatePanic(sto, mem, loaded, diag) ==
    [CreateReturn(<<>>, sto, mem, loaded, diag) EXCEPT !.panic = TRUE]

\* The PCB is stored and the file is recorded as loaded.
CreateTable(k, sto, loaded, diag, file_name, next_id, burst, table) ==
    IF table.panic \/ ~table.ok
    THEN CreatePanic(sto, table.memory, loaded, diag)
    ELSE create_pcbs(k + 1, sto, table.memory,
                     Append(loaded, <<file_name, next_id>>),
                     Append(diag, TimingNew(next_id, burst)))

\* The stack is stored: an Err of it is a todo!().
CreateStack(k, sto, loaded, diag, file_name, next_id, burst, code, stack) ==
    IF stack.panic \/ ~stack.ok
    THEN CreatePanic(sto, stack.memory, loaded, diag)
    ELSE CreateTable(k, sto, loaded, diag, file_name, next_id, burst,
             MemoryStorePcb(stack.memory,
                 PCBStackSegment(
                     PCBCodeSegment(PCBNew(next_id), code.address, code.size),
                     stack.address, stack.size)))

\* The code is stored: an Err of it returns the dialog alone.
CreateCode(k, sto, mem, loaded, diag, file_name, next_id, burst, code) ==
    IF code.panic THEN CreatePanic(sto, mem, loaded, diag)
    ELSE IF ~code.ok
    THEN CreateReturn(<<MsgDialogResult>>, sto, mem, loaded, diag)
    ELSE CreateStack(k, sto, loaded, diag, file_name, next_id, burst, code,
                     MemoryStore(code.memory, Zeros(5), 5))

\* The file that does not parse is removed from storage: its bytes are
\* zeroed and the FIRST entry of storage.used is moved to storage.freed.
StorageDrop(sto, file) ==
    [sto EXCEPT !.data = Write(sto.data, file[2], Zeros(file[3])),
                !.used = Tail(sto.used),
                !.freed = Append(sto.freed, sto.used[1])]

\* The file is parsed; on an Err it is dropped and the dialog is returned.
CreateParsed(k, sto, mem, loaded, diag, file, parsed) ==
    IF parsed.panic THEN CreatePanic(sto, mem, loaded, diag)
    ELSE IF ~parsed.ok
    THEN CreateReturn(<<MsgDialogResult, MsgScheduler>>,
                      StorageDrop(sto, file), mem, loaded, diag)
    ELSE IF ~(Len(parsed.value) + 5 <= free_size(mem))
    THEN create_pcbs(k + 1, sto, mem, loaded, diag)
    ELSE CreateCode(k, sto, mem, loaded, diag, file[1], last_pcb_id(mem) + 1,
                    Len(parsed.value),
                    MemoryStore(mem, to_bytes(parsed.value),
                                Len(to_bytes(parsed.value))))

create_pcbs(k, sto, mem, loaded, diag) ==
    IF k > Len(sto.used) THEN CreateReturn(<<>>, sto, mem, loaded, diag)
    ELSE IF \E i \in 1..Len(loaded) : loaded[i][1] = sto.used[k][1]
    THEN create_pcbs(k + 1, sto, mem, loaded, diag)
    ELSE CreateParsed(k, sto, mem, loaded, diag, sto.used[k],
             read_file(Slice(sto.data, sto.used[k][2],
                             sto.used[k][2] + sto.used[k][3])))

(***************************************************************************)
(* main.rs, Message::Scheduler.  The CPU the code draws at random is any   *)
(* CPU the draw can give, so each discipline yields the set of outcomes    *)
(* [panic, task] of its loop.                                              *)
(***************************************************************************)
\* slice::sort_by_key, a stable sort: insertion of x behind its equals.
RECURSIVE SortInsert(_, _, _)
SortInsert(sorted, x, key) ==
    IF sorted = <<>> THEN <<x>>
    ELSE IF x[key] < Head(sorted)[key] THEN <<x>> \o sorted
    ELSE <<Head(sorted)>> \o SortInsert(Tail(sorted), x, key)

RECURSIVE SortByKey(_, _)
SortByKey(s, key) ==
    IF s = <<>> THEN <<>>
    ELSE SortInsert(SortByKey(SubSeq(s, 1, Len(s) - 1), key), s[Len(s)], key)

\* The CPUs whose p is None.
IdleCpus(cs) == {c \in DOMAIN cs : cs[c].p = None}

SchedPanic == [panic |-> TRUE, task |-> <<>>]

SchedTask(task) == [panic |-> FALSE, task |-> task]

\* Task::done(Distpacher(cpu, pcb)).chain(Task::done(Scheduler)).
DispatchThenScheduler(c, entry) ==
    SchedTask(<<Msg("Distpacher", c, entry), MsgScheduler>>)

IsNewOrReady(pcb) == pcb.process_state \in {New, Ready}

\* An FCFS that sends any New or Ready PCB to any CPU, idle or not.
SchedulerFCFSAnyCpu(k, mem, cs) ==
    LET ready == {i \in 1..Len(mem.pcb_table) :
                     /\ EntryOk(mem, mem.pcb_table[i][2], mem.pcb_table[i][3])
                     /\ IsNewOrReady(EntryPCB(mem, mem.pcb_table[i][2],
                                              mem.pcb_table[i][3]))}
    IN  IF ready = {} THEN {SchedTask(<<>>)}
        ELSE {DispatchThenScheduler(c, mem.pcb_table[i]) :
                 c \in DOMAIN cs, i \in ready}

\* FCFS: the first New or Ready PCB of the table goes to an idle CPU.
RECURSIVE SchedulerFCFS(_, _, _)
SchedulerFCFS(k, mem, cs) ==
    IF k > Len(mem.pcb_table) THEN {SchedTask(<<>>)}
    ELSE LET entry == mem.pcb_table[k]
         IN  IF ~EntryOk(mem, entry[2], entry[3]) THEN {SchedPanic}
             ELSE IF /\ IsNewOrReady(EntryPCB(mem, entry[2], entry[3]))
                     /\ IdleCpus(cs) # {}
             THEN {DispatchThenScheduler(c, entry) : c \in IdleCpus(cs)}
             ELSE SchedulerFCFS(k + 1, mem, cs)

\* SJF: the same, in the order of the diagram sorted by burst.
RECURSIVE SchedulerSJF(_, _, _, _)
SchedulerSJF(k, mem, cs, diag) ==
    IF k > Len(diag) THEN {SchedTask(<<>>)}
    ELSE LET i == TableIndex(mem, diag[k].p_id)
             entry == mem.pcb_table[i]
         IN  IF i = 0 THEN SchedulerSJF(k + 1, mem, cs, diag)
             ELSE IF ~EntryOk(mem, entry[2], entry[3]) THEN {SchedPanic}
             ELSE IF /\ IsNewOrReady(EntryPCB(mem, entry[2], entry[3]))
                     /\ IdleCpus(cs) # {}
             THEN {DispatchThenScheduler(c, entry) : c \in IdleCpus(cs)}
             ELSE SchedulerSJF(k + 1, mem, cs, diag)

\* An SRT that preempts whatever the remaining bursts are: the first New or
\* Ready PCB of the sorted diagram goes to an idle CPU or, when none is
\* idle, to any CPU.
SchedulerSRTAlways(k, mem, cs, diag) ==
    LET ready == {j \in 1..Len(diag) :
                     /\ diag[j].c_id = None
                     /\ TableIndex(mem, diag[j].p_id) # 0
                     /\ LET e == mem.pcb_table[TableIndex(mem, diag[j].p_id)]
                        IN  /\ EntryOk(mem, e[2], e[3])
                            /\ IsNewOrReady(EntryPCB(mem, e[2], e[3]))}
    IN  IF ready = {} THEN {SchedTask(<<>>)}
        ELSE LET j == CHOOSE j \in ready : \A i \in ready : j <= i
                 e == mem.pcb_table[TableIndex(mem, diag[j].p_id)]
             IN  {DispatchThenScheduler(c, e) :
                     c \in IF IdleCpus(cs) # {} THEN IdleCpus(cs)
                           ELSE DOMAIN cs}

\* SRT: in the order of the diagram sorted by remaining_burst, a New or
\* Ready PCB not on a CPU goes to an idle CPU or, when none is idle, to a
\* drawn CPU whose process has more remaining_burst; when the drawn CPU's
\* process has not, the loop goes on to the next Timing.
RECURSIVE SchedulerSRT(_, _, _, _)
SchedulerSRT(k, mem, cs, diag) ==
    IF k > Len(diag) THEN {SchedTask(<<>>)}
    ELSE IF diag[k].c_id # None THEN SchedulerSRT(k + 1, mem, cs, diag)
    ELSE LET i == TableIndex(mem, diag[k].p_id)
             entry == mem.pcb_table[i]
             Preempts(c) ==
                 LET old == TimingIndex(diag, cs[c].p)
                 IN  /\ old # 0
                     /\ diag[old].remaining_burst > diag[k].remaining_burst
         IN  IF i = 0 THEN SchedulerSRT(k + 1, mem, cs, diag)
             ELSE IF ~EntryOk(mem, entry[2], entry[3]) THEN {SchedPanic}
             ELSE IF ~IsNewOrReady(EntryPCB(mem, entry[2], entry[3]))
             THEN SchedulerSRT(k + 1, mem, cs, diag)
             ELSE IF IdleCpus(cs) # {}
             THEN {DispatchThenScheduler(c, entry) : c \in IdleCpus(cs)}
             ELSE {DispatchThenScheduler(c, entry) :
                      c \in {d \in DOMAIN cs : Preempts(d)}}
                  \cup (IF \E c \in DOMAIN cs : ~Preempts(c)
                        THEN SchedulerSRT(k + 1, mem, cs, diag) ELSE {})

\* RR: the first New or Ready PCB of the table goes to an idle CPU or, when
\* none is idle and the counter is a positive multiple of the quantum, to a
\* drawn CPU, with no Scheduler message behind the Distpacher.
RECURSIVE SchedulerRR(_, _, _, _, _)
SchedulerRR(k, mem, cs, q, cnt) ==
    IF k > Len(mem.pcb_table) THEN {SchedTask(<<>>)}
    ELSE LET entry == mem.pcb_table[k]
         IN  IF ~EntryOk(mem, entry[2], entry[3]) THEN {SchedPanic}
             ELSE IF ~IsNewOrReady(EntryPCB(mem, entry[2], entry[3]))
             THEN SchedulerRR(k + 1, mem, cs, q, cnt)
             ELSE IF IdleCpus(cs) # {}
             THEN {DispatchThenScheduler(c, entry) : c \in IdleCpus(cs)}
             ELSE IF cnt % q = 0 /\ cnt # 0
             THEN {SchedTask(<<Msg("Distpacher", c, entry)>>) :
                      c \in DOMAIN cs}
             ELSE SchedulerRR(k + 1, mem, cs, q, cnt)

\* A Scheduler that sorts nothing.
SchedulerDiagramUnsorted(scheduler, diag) == diag

\* The diagram the discipline leaves behind: SRT and SJF sort it in place.
SchedulerDiagram(scheduler, diag) ==
    CASE scheduler = "SRT" -> SortByKey(diag, "remaining_burst")
      [] scheduler = "SJF" -> SortByKey(diag, "burst")
      [] OTHER -> diag

SchedulerOutcomes(scheduler, mem, cs, diag, q, cnt) ==
    CASE scheduler = "FCFS" -> SchedulerFCFS(1, mem, cs)
      [] scheduler = "SRT" -> SchedulerSRT(1, mem, cs, diag)
      [] scheduler = "SJF" -> SchedulerSJF(1, mem, cs, diag)
      [] scheduler = "RR" -> SchedulerRR(1, mem, cs, q, cnt)
      [] OTHER -> {SchedTask(<<>>)}

\* A handler that panics ends the program: nothing else happens after it.
Panic ==
    /\ panicked' = TRUE
    /\ pending' = <<>>
    /\ UNCHANGED <<cpus, stats_data, mode, memory, storage, config,
                   display_content, waiting_queue, loaded_files, diagram,
                   quantum, counter, picks>>

\* The state create_pcbs leaves and the Task the handler returns.
SchedulerReturn(made, diag, task) ==
    /\ storage' = made.storage
    /\ memory' = made.memory
    /\ loaded_files' = made.loaded_files
    /\ diagram' = diag
    /\ pending' = Tail(pending) \o task
    /\ UNCHANGED <<cpus, stats_data, mode, config, display_content,
                   waiting_queue, quantum, counter, picks, panicked>>

\* The discipline, on the state create_pcbs leaves.
SchedulerSelect(made, diag) ==
    \E o \in SchedulerOutcomes(config.scheduler, made.memory, cpus, diag,
                               quantum, counter) :
        IF o.panic THEN Panic ELSE SchedulerReturn(made, diag, o.task)

SchedulerMade(made) ==
    IF made.panic THEN Panic
    ELSE IF made.some THEN SchedulerReturn(made, made.diagram, made.task)
    ELSE SchedulerSelect(made,
                         SchedulerDiagram(config.scheduler, made.diagram))

\* Message::Scheduler.
Scheduler ==
    /\ ~panicked
    /\ pending # <<>>
    /\ Head(pending).type = "Scheduler"
    /\ SchedulerMade(create_pcbs(1, storage, memory, loaded_files, diagram))
    /\ Observe("keep")

(***************************************************************************)
(* main.rs, Message::Distpacher.                                           *)
(***************************************************************************)
\* pcb.ax = cpu.ax; ... pcb.z = cpu.z of Terminated and Blocked.
SaveRegisters(pcb, cpu) ==
    [pcb EXCEPT !.ax = cpu.ax, !.bx = cpu.bx, !.cx = cpu.cx, !.dx = cpu.dx,
                !.ac = cpu.ac, !.pc = cpu.pc, !.sp = ToU8(cpu.sp),
                !.ir = cpu.ir, !.z = cpu.z]

\* The same lines of the Distpacher, where the bx line reads
\* cpu.bx = pcb.bx: the PCB keeps its bx.
DistpacherSave(pcb, cpu) ==
    [pcb EXCEPT !.ax = cpu.ax, !.cx = cpu.cx, !.dx = cpu.dx,
                !.ac = cpu.ac, !.pc = cpu.pc, !.sp = ToU8(cpu.sp),
                !.ir = cpu.ir, !.z = cpu.z, !.process_state = Ready]

\* cpu.ax = pcb.ax; ... cpu.z = pcb.z.
LoadRegisters(cpu, pcb) ==
    [cpu EXCEPT !.ax = pcb.ax, !.bx = pcb.bx, !.cx = pcb.cx, !.dx = pcb.dx,
                !.ac = pcb.ac, !.pc = pcb.pc, !.sp = pcb.sp,
                !.ir = pcb.ir, !.z = pcb.z]

\* The first half: the PCB of the process the CPU runs is written back.
DistpacherOut(cpu_index, cs, mem, diag) ==
    LET same == [panic |-> FALSE, cpu |-> cs[cpu_index].cpu, memory |-> mem,
                 diagram |-> diag]
        p_id == cs[cpu_index].p
        i == TableIndex(mem, p_id)
    IN  IF p_id = None \/ i = 0 THEN same
        ELSE LET old_address == mem.pcb_table[i][2]
                 old_size == mem.pcb_table[i][3]
             IN  IF ~EntryOk(mem, old_address, old_size)
                 THEN [same EXCEPT !.panic = TRUE]
                 ELSE
                 LET old == EntryPCB(mem, old_address, old_size)
                     bytes == PCBInto(DistpacherSave(old, cs[cpu_index].cpu))
                     t == TimingIndex(diag, p_id)
                 IN  IF old_address + Len(bytes) > MemLen(mem)
                     THEN [same EXCEPT !.panic = TRUE]
                     ELSE [panic |-> FALSE,
                           cpu |-> [cs[cpu_index].cpu EXCEPT !.bx = old.bx],
                           memory |-> [mem EXCEPT
                               !.data = Write(mem.data, old_address, bytes)],
                           diagram |-> IF t = 0 THEN diag
                                       ELSE [diag EXCEPT ![t].c_id = None]]

Distpacher ==
    /\ ~panicked
    /\ pending # <<>>
    /\ Head(pending).type = "Distpacher"
    /\ LET cpu_index == Head(pending).cpu
           pcb_id == Head(pending).pcb[1]
           address == Head(pending).pcb[2]
           size == Head(pending).pcb[3]
           out == DistpacherOut(cpu_index, cpus, memory, diagram)
       IN  IF out.panic \/ ~EntryOk(out.memory, address, size) THEN Panic
           ELSE
           LET pcb == EntryPCB(out.memory, address, size)
               bytes == PCBInto([pcb EXCEPT !.process_state = Running])
               t == TimingIndex(out.diagram, pcb_id)
           IN  IF address + Len(bytes) > MemLen(out.memory) THEN Panic
               ELSE
               /\ cpus' = [cpus EXCEPT ![cpu_index] =
                             [cpu |-> [LoadRegisters(out.cpu, pcb) EXCEPT
                                          !.start_time = TRUE],
                              p |-> pcb_id]]
               /\ memory' = [out.memory EXCEPT
                                !.data = Write(out.memory.data, address, bytes)]
               /\ diagram' = IF t = 0 THEN out.diagram
                             ELSE [out.diagram EXCEPT ![t].c_id = cpu_index,
                                                      ![t].start = TRUE]
               /\ mode' = IF mode = "None" THEN "Manual" ELSE mode
               /\ pending' = Tail(pending)
               /\ UNCHANGED <<stats_data, storage, config, display_content,
                              waiting_queue, loaded_files, quantum, counter,
                              picks, panicked>>
    /\ Observe("keep")

(***************************************************************************)
(* main.rs, Message::Terminated.  A ProcessStats keeps its ids.            *)
(***************************************************************************)
\* The entry of loaded_files that holds the process, or 0.
LoadedIndex(loaded, p_id) ==
    IF \E i \in 1..Len(loaded) : loaded[i][2] = p_id
    THEN CHOOSE i \in 1..Len(loaded) :
            /\ loaded[i][2] = p_id
            /\ \A j \in 1..(i - 1) : loaded[j][2] # p_id
    ELSE 0

\* A Terminated that returns Task::none().
TerminatedTaskNone == <<>>

\* Task::done(Message::Scheduler), the Task Terminated returns on every path.
TerminatedTask == <<MsgScheduler>>

MessageTerminated ==
    /\ ~panicked
    /\ pending # <<>>
    /\ Head(pending).type = "Terminated"
    /\ LET cpu_index == Head(pending).cpu
           cpu == cpus[cpu_index].cpu
           p_id == cpus[cpu_index].p
           i == TableIndex(memory, p_id)
       IN  IF p_id = None \/ i = 0
           THEN /\ pending' = Tail(pending) \o TerminatedTask
                /\ UNCHANGED <<cpus, stats_data, mode, memory, storage,
                               config, display_content, waiting_queue,
                               loaded_files, diagram, quantum, counter,
                               picks, panicked>>
           ELSE
           LET address == memory.pcb_table[i][2]
               size == memory.pcb_table[i][3]
               t == TimingIndex(diagram, p_id)
               timed == cpu.start_time /\ t # 0
           IN  IF ~EntryOk(memory, address, size) THEN Panic
               ELSE IF timed /\ ~diagram[t].start THEN Panic
               ELSE
               LET pcb == [SaveRegisters(EntryPCB(memory, address, size), cpu)
                              EXCEPT !.process_state = Terminated]
                   bytes == PCBInto(pcb)
                   l == LoadedIndex(loaded_files, p_id)
               IN  IF Len(bytes) # size THEN Panic
                   ELSE
                   /\ diagram' = IF timed
                                 THEN [diagram EXCEPT ![t].execution = TRUE,
                                                      ![t].end_time = TRUE]
                                 ELSE diagram
                   /\ stats_data' = IF timed
                                    THEN Append(stats_data,
                                                [process_id |-> p_id,
                                                 cpu_id |-> cpu_index])
                                    ELSE stats_data
                   /\ memory' = MemoryFree(
                                    MemoryFree(
                                        [memory EXCEPT !.data =
                                            Write(memory.data, address, bytes)],
                                        pcb.code_segment),
                                    pcb.stack_segment)
                   /\ loaded_files' = IF l = 0 THEN loaded_files
                                      ELSE [loaded_files EXCEPT ![l][2] = None]
                   /\ cpus' = [cpus EXCEPT ![cpu_index] =
                                  [cpu |-> CPUNew, p |-> None]]
                   /\ pending' = Tail(pending) \o TerminatedTask
                   /\ UNCHANGED <<mode, storage, config, display_content,
                                  waiting_queue, quantum, counter, picks,
                                  panicked>>
    /\ Observe("reset")

(***************************************************************************)
(* main.rs, Message::Blocked: the CPU is read, never written.              *)
(***************************************************************************)
MessageBlocked ==
    /\ ~panicked
    /\ pending # <<>>
    /\ Head(pending).type = "Blocked"
    /\ LET cpu_index == Head(pending).cpu
           cpu == cpus[cpu_index].cpu
           p_id == cpus[cpu_index].p
           i == TableIndex(memory, p_id)
       IN  IF p_id = None \/ i = 0
           THEN /\ pending' = Tail(pending)
                /\ UNCHANGED <<memory, waiting_queue, panicked>>
           ELSE
           LET address == memory.pcb_table[i][2]
               size == memory.pcb_table[i][3]
           IN  IF ~EntryOk(memory, address, size)
               THEN /\ panicked' = TRUE
                    /\ pending' = <<>>
                    /\ UNCHANGED <<memory, waiting_queue>>
               ELSE
               LET bytes == PCBInto(
                       [SaveRegisters(EntryPCB(memory, address, size), cpu)
                           EXCEPT !.process_state = Blocked])
               IN  IF Len(bytes) # size
                   THEN /\ panicked' = TRUE
                        /\ pending' = <<>>
                        /\ UNCHANGED <<memory, waiting_queue>>
                   ELSE /\ memory' = [memory EXCEPT !.data =
                                         Write(memory.data, address, bytes)]
                        /\ waiting_queue' =
                               Append(waiting_queue, memory.pcb_table[i])
                        /\ pending' = Tail(pending)
                        /\ UNCHANGED panicked
    /\ UNCHANGED <<cpus, stats_data, mode, storage, config, display_content,
                   loaded_files, diagram, quantum, counter, picks>>
    /\ Observe("reset")

(***************************************************************************)
(* main.rs, Message::Unblock.  The view offers the button while the        *)
(* waiting queue is not empty.                                             *)
(***************************************************************************)
\* An Unblock that leaves the pc of the PCB at the INT 09H.
UnblockPCBSamePc(pcb, num) ==
    [pcb EXCEPT !.dx = num, !.process_state = Ready]

\* pcb.dx = num; pcb.process_state = Ready; pcb.pc += 6.
UnblockPCB(pcb, num) ==
    [pcb EXCEPT !.dx = num, !.process_state = Ready, !.pc = pcb.pc + 6]

Unblock ==
    /\ ~panicked
    /\ pending = <<>>
    /\ waiting_queue # <<>>
    /\ LET address == waiting_queue[1][2]
           size == waiting_queue[1][3]
           num == ParseU8(display_content)
       IN  IF num = None
           THEN UNCHANGED <<memory, waiting_queue, pending, panicked>>
           ELSE IF ~EntryOk(memory, address, size)
           THEN /\ panicked' = TRUE
                /\ UNCHANGED <<memory, waiting_queue, pending>>
           ELSE
           LET pcb == EntryPCB(memory, address, size)
               bytes == PCBInto(UnblockPCB(pcb, num))
           IN  IF Len(bytes) # size
               THEN /\ panicked' = TRUE
                    /\ UNCHANGED <<memory, waiting_queue, pending>>
               ELSE /\ memory' = [memory EXCEPT !.data =
                                     Write(memory.data, address, bytes)]
                    /\ waiting_queue' = Tail(waiting_queue)
                    /\ pending' = <<MsgScheduler>>
                    /\ UNCHANGED panicked
    /\ UNCHANGED <<cpus, stats_data, mode, storage, config, display_content,
                   loaded_files, diagram, quantum, counter, picks>>
    /\ Observe("reset")

(***************************************************************************)
(* main.rs, Message::Tick: the loop over the CPUs from the cpu_i-th on.    *)
(* ret is the message of the return that leaves the loop early, and        *)
(* MsgNone when the loop runs to its end.                                  *)
(***************************************************************************)
RECURSIVE TickLoop(_, _, _, _, _, _)
TickLoop(cpu_i, cs, data, diag, display, wrap) ==
    LET size == config.memory
        here(panic, ret) == [panic |-> panic, ret |-> ret, cpus |-> cs,
                             data |-> data, diagram |-> diag,
                             display_content |-> display]
    IN
    IF cpu_i \notin DOMAIN cs THEN here(FALSE, MsgNone)
    ELSE IF cs[cpu_i].p = None
    THEN TickLoop(cpu_i + 1, cs, data, diag, display, wrap)
    ELSE
    LET cpu == cs[cpu_i].cpu
    IN
    \* Fetch: &self.memory.data[cpu.pc + 1..cpu.pc + 6]
    IF cpu.pc = Huge \/ cpu.pc + 6 > size THEN here(TRUE, MsgNone)
    ELSE
    LET bytes == Slice(data, cpu.pc + 1, cpu.pc + 6)
    IN
    IF bytes[1] = 0 THEN here(FALSE, Msg("Terminated", cpu_i, <<>>))
    ELSE IF ~InstructionFromOk(bytes) THEN here(TRUE, MsgNone)
    ELSE
    LET instruction == InstructionFrom(bytes)
        r == Execute([cpu EXCEPT !.ir = instruction.operation], data,
                     display, size, instruction, wrap)
        after(c) == [cs EXCEPT ![cpu_i].cpu = c]
        t == TimingIndex(diag, cs[cpu_i].p)
    IN
    IF r.panic THEN here(TRUE, MsgNone)
    ELSE IF r.ret # ""
    THEN [here(FALSE, Msg(r.ret, cpu_i, <<>>)) EXCEPT !.cpus = after(r.cpu)]
    ELSE IF t # 0 /\ ((diag[t].remaining_burst = 0 /\ ~wrap) \/ ~diag[t].start)
    THEN here(TRUE, MsgNone)
    ELSE
    LET timed == IF t = 0 THEN diag
                 ELSE [diag EXCEPT
                          ![t].remaining_burst =
                              IF diag[t].remaining_burst = 0 THEN Huge
                              ELSE IF diag[t].remaining_burst = Huge THEN Huge
                              ELSE diag[t].remaining_burst - 1,
                          ![t].execution = TRUE]
        pc == IF r.cpu.pc + 6 < 0 THEN Huge ELSE r.cpu.pc + 6
    IN  TickLoop(cpu_i + 1, after([r.cpu EXCEPT !.pc = pc]), r.data, timed,
                 r.display, wrap)

\* The view offers Tick once a mode is set: the Next button when it is
\* Manual, the timer's subscription when it is Automatic.
TickWithin(limit) ==
    /\ ~panicked
    /\ pending = <<>>
    /\ mode # "None"
    /\ counter < limit
    /\ Len(waiting_queue) < MaxQueue
    /\ \E wrap \in BOOLEAN :
          \E r \in {TickLoop(0, cpus, memory.data, diagram,
                              display_content, wrap)} :
              IF r.panic
              THEN /\ panicked' = TRUE
                   /\ UNCHANGED <<cpus, memory, diagram, display_content,
                                  counter, pending>>
              ELSE /\ cpus' = r.cpus
                   /\ memory' = [memory EXCEPT !.data = r.data]
                   /\ diagram' = r.diagram
                   /\ display_content' = r.display_content
                   /\ IF r.ret # MsgNone
                      THEN /\ pending' = <<r.ret>>
                           /\ UNCHANGED counter
                      ELSE /\ counter' = counter + 1
                           /\ pending' =
                                 IF counter' % quantum = 0 /\ counter' # 0
                                 THEN <<MsgScheduler>> ELSE <<>>
                   /\ UNCHANGED panicked
    /\ UNCHANGED <<stats_data, mode, storage, config, waiting_queue,
                   loaded_files, quantum, picks>>
    /\ Observe("tick")

Tick == TickWithin(MaxTicks)

(***************************************************************************)
(* main.rs: the messages of the controls.                                  *)
(***************************************************************************)
\* Message::StoreFiles(Ok(files)): the loop over the files from the k-th on.
RECURSIVE StoreLoop(_, _, _)
StoreLoop(k, files, sto) ==
    IF k > Len(files)
    THEN [panic |-> FALSE, task |-> <<MsgScheduler>>, storage |-> sto]
    ELSE LET r == StoreFile(sto, files[k].name, Len(files[k].data),
                            files[k].data)
         IN  IF r.panic
             THEN [panic |-> TRUE, task |-> <<>>, storage |-> sto]
             ELSE IF ~r.ok
             THEN [panic |-> FALSE, task |-> <<MsgDialogResult>>,
                   storage |-> r.storage]
             ELSE StoreLoop(k + 1, files, r.storage)

StoreFiles ==
    /\ ~panicked
    /\ pending = <<>>
    /\ picks # <<>>
    /\ picks' = Tail(picks)
    /\ LET r == StoreLoop(1, Head(picks), storage)
       IN  IF r.panic
           THEN /\ panicked' = TRUE
                /\ UNCHANGED <<storage, pending>>
           ELSE /\ storage' = r.storage
                /\ pending' = r.task
                /\ UNCHANGED panicked
    /\ UNCHANGED <<cpus, stats_data, mode, memory, config, display_content,
                   waiting_queue, loaded_files, diagram, quantum, counter>>
    /\ Observe("keep")

\* Message::DialogResult.
DialogResult ==
    /\ ~panicked
    /\ pending # <<>>
    /\ Head(pending).type = "DialogResult"
    /\ pending' = Tail(pending)
    /\ UNCHANGED <<cpus, stats_data, mode, memory, storage, config,
                   display_content, waiting_queue, loaded_files, diagram,
                   quantum, counter, picks, panicked>>
    /\ Observe("keep")

\* Message::ResetPressed.
ResetPressed ==
    /\ ~panicked
    /\ pending = <<>>
    /\ storage' = StorageNew(config.storage)
    /\ memory' = MemoryNew(config.memory, config.os_segment)
    /\ cpus' = CpusNew(config.cpu_quantity)
    /\ mode' = "None"
    /\ display_content' = <<>>
    /\ waiting_queue' = <<>>
    /\ loaded_files' = <<>>
    /\ diagram' = <<>>
    /\ counter' = 0
    /\ UNCHANGED <<stats_data, config, quantum, picks, pending, panicked>>
    /\ Observe("reset")

\* Message::ChangeMode; the view offers the button once a mode is set.
ChangeMode ==
    /\ ~panicked
    /\ pending = <<>>
    /\ mode # "None"
    /\ mode' = IF mode = "Manual" THEN "Automatic" ELSE "Manual"
    /\ diagram' = [i \in DOMAIN diagram |->
                      IF ~diagram[i].start /\ diagram[i].c_id = None
                      THEN [diagram[i] EXCEPT !.start = TRUE]
                      ELSE diagram[i]]
    /\ UNCHANGED <<cpus, stats_data, memory, storage, config,
                   display_content, waiting_queue, loaded_files, quantum,
                   counter, picks, pending, panicked>>
    /\ Observe("keep")

\* char::is_numeric on the bytes the model types.
IsNumeric(c) == c \in 48..57

\* Message::Input; the view shows the field while the waiting queue is not
\* empty.
Input ==
    /\ ~panicked
    /\ pending = <<>>
    /\ waiting_queue # <<>>
    /\ \E typed \in Inputs :
          LET input == SelectSeq(typed, IsNumeric)
          IN  display_content' = IF Len(input) <= 3 THEN input
                                 ELSE display_content
    /\ UNCHANGED <<cpus, stats_data, mode, memory, storage, config,
                   waiting_queue, loaded_files, diagram, quantum, counter,
                   picks, pending, panicked>>
    /\ Observe("keep")

\* Message::SchedulerSelected.
\* A selection that is taken in every mode (not what the code does).
SelectedConfigAlways(cfg, m, scheduler) ==
    [cfg EXCEPT !.scheduler = scheduler]

\* if self.mode.is_none() { self.config.scheduler = Some(scheduler) }
SelectedConfig(cfg, m, scheduler) ==
    IF m = "None" THEN [cfg EXCEPT !.scheduler = scheduler] ELSE cfg

SchedulerSelected ==
    /\ ~panicked
    /\ pending = <<>>
    /\ \E scheduler \in Schedulers :
          config' = SelectedConfig(config, mode, scheduler)
    /\ UNCHANGED <<cpus, stats_data, mode, memory, storage,
                   display_content, waiting_queue, loaded_files, diagram,
                   quantum, counter, picks, pending, panicked>>
    /\ Observe("reset")

\* Message::QuantumSelected.
QuantumSelected ==
    /\ ~panicked
    /\ pending = <<>>
    /\ \E q \in 1..MaxQuantum :
          quantum' = IF config.scheduler = "RR" THEN q ELSE quantum
    /\ UNCHANGED <<cpus, stats_data, mode, memory, storage, config,
                   display_content, waiting_queue, loaded_files, diagram,
                   counter, picks, pending, panicked>>
    /\ Observe("reset")

\* Message::TickScheduler is sent by nothing; OpenFile, FilePicked and
\* StoreFiles(Err) reach the state through StoreFiles and DialogResult only.
Next ==
    \/ StoreFiles
    \/ DialogResult
    \/ ResetPressed
    \/ ChangeMode
    \/ Scheduler
    \/ Distpacher
    \/ MessageTerminated
    \/ MessageBlocked
    \/ Unblock
    \/ Tick
    \/ Input
    \/ SchedulerSelected
    \/ QuantumSelected

Spec == Init /\ [][Next]_vars

(***************************************************************************)
(* What the properties read from a state.                                  *)
(***************************************************************************)
\* The program is between two events: no message is on its way.
Quiet == pending = <<>> /\ ~panicked

\* Whether the PCB table holds the process and its bytes parse, and the PCB.
HasPCB(mem, p_id) ==
    /\ p_id # None
    /\ TableIndex(mem, p_id) # 0
    /\ EntryOk(mem, mem.pcb_table[TableIndex(mem, p_id)][2],
               mem.pcb_table[TableIndex(mem, p_id)][3])

PCBOf(mem, p_id) ==
    EntryPCB(mem, mem.pcb_table[TableIndex(mem, p_id)][2],
             mem.pcb_table[TableIndex(mem, p_id)][3])

\* The CPUs bound to a process whose PCB can be read.
BoundCpus == {c \in DOMAIN cpus : HasPCB(memory, cpus[c].p)}

\* The processes that can run: New, Ready or Running.
Runnable ==
    {p \in DOMAIN idle :
        /\ HasPCB(memory, p)
        /\ PCBOf(memory, p).process_state \in {New, Ready, Running}}

(***************************************************************************)
(* C1.  Between events, the PCB of every process bound to a CPU has state  *)
(* Running.  The code does not keep it: Message::Blocked writes the PCB as *)
(* Blocked and leaves the CPU bound.                                       *)
(***************************************************************************)
C1_BoundIsRunning ==
    Quiet => \A c \in BoundCpus :
                PCBOf(memory, cpus[c].p).process_state = Running

(***************************************************************************)
(* C2.  Between events, no CPU is bound to a process whose PCB has state   *)
(* Blocked: handling Blocked(cpu) empties the CPU's slot.  The code does   *)
(* not do so.                                                              *)
(***************************************************************************)
C2_NoCpuHoldsBlocked ==
    Quiet => \A c \in DOMAIN cpus :
                ~(/\ HasPCB(memory, cpus[c].p)
                  /\ PCBOf(memory, cpus[c].p).process_state = Blocked)

(***************************************************************************)
(* C3.  A step takes a PCB out of state Blocked only by removing it from   *)
(* the head of the waiting queue (Unblock); a PCB that is Blocked and is   *)
(* still in the table after a step of any other kind is still Blocked.     *)
(* The Distpacher of the code writes a Blocked process that is still bound *)
(* to the CPU back as Ready.                                               *)
(***************************************************************************)
C3_BlockedUntilUnblock ==
    [][\A i \in 1..Len(memory.pcb_table) :
          LET p == memory.pcb_table[i][1]
          IN  (/\ HasPCB(memory, p)
               /\ PCBOf(memory, p).process_state = Blocked
               /\ HasPCB(memory', p)
               /\ PCBOf(memory', p).process_state # Blocked)
              => (/\ waiting_queue # <<>>
                  /\ waiting_queue[1][1] = p
                  /\ waiting_queue' = Tail(waiting_queue))]_vars

(***************************************************************************)
(* C4.  Under RR with quantum q and k processes that can run, none of them *)
(* goes k * q + 1 Ticks in a row without executing an instruction.  The    *)
(* RR of the code always takes the first New or Ready PCB of the table, so *)
(* with one CPU the first two processes alternate and the third never      *)
(* runs.                                                                   *)
(***************************************************************************)
C4_RoundRobinFair ==
    config.scheduler = "RR" =>
        \A p \in Runnable : idle[p] < Cardinality(Runnable) * quantum + 1

(***************************************************************************)
(* C5.  A Distpacher step that takes a CPU from a process writes that      *)
(* process's PCB back with state Ready and with ax, bx, cx, dx, ac, pc,    *)
(* sp, ir and z equal to the CPU's.  The code copies bx the wrong way.     *)
(***************************************************************************)
C5_SwitchSavesRegisters ==
    [][(Distpacher /\ ~panicked')
       => LET c == Head(pending).cpu
              p == cpus[c].p
              cpu == cpus[c].cpu
          IN  (HasPCB(memory, p) /\ p # Head(pending).pcb[1]
                                 /\ HasPCB(memory', p))
              => LET pcb == PCBOf(memory', p)
                 IN  /\ pcb.process_state = Ready
                     /\ pcb.ax = cpu.ax /\ pcb.bx = cpu.bx
                     /\ pcb.cx = cpu.cx /\ pcb.dx = cpu.dx
                     /\ pcb.ac = cpu.ac /\ pcb.pc = cpu.pc
                     /\ pcb.sp = cpu.sp /\ pcb.ir = cpu.ir
                     /\ pcb.z = cpu.z]_vars

(***************************************************************************)
(* C8.  A Tick changes a byte of memory only inside the stack segment of a *)
(* process bound to a CPU; it changes no byte of the OS segment.  In the   *)
(* code the sp of a PCB starts at 0 and is never set to the stack segment, *)
(* so PUSH writes at address 0, into the first PCB.                        *)
(***************************************************************************)
C8_WritesStayInStack ==
    [][Tick
       => \A a \in DOMAIN memory.data :
             memory'.data[a] # memory.data[a]
             => \E c \in BoundCpus :
                   LET pcb == PCBOf(memory, cpus[c].p)
                   IN  /\ pcb.stack_segment <= a
                       /\ a < pcb.stack_segment + pcb.stack_segment_size]_vars

(***************************************************************************)
(* C9.  Between events, the pc of every CPU bound to a process lies in     *)
(* [code_segment, code_segment + code_segment_size] of that process.  The  *)
(* jumps of the code check nothing: JMP 1 as the last instruction before   *)
(* INT 20H leaves the pc behind the code segment.                          *)
(***************************************************************************)
C9_PcInCodeSegment ==
    Quiet => \A c \in BoundCpus :
                LET pcb == PCBOf(memory, cpus[c].p)
                IN  /\ pcb.code_segment <= cpus[c].cpu.pc
                    /\ cpus[c].cpu.pc
                          <= pcb.code_segment + pcb.code_segment_size

(***************************************************************************)
(* C10. Between events, every entry of the waiting queue refers to a PCB   *)
(* whose state is Blocked.  In the code a blocked process stays on its CPU *)
(* and is queued again by the next Tick; Unblock removes one entry only.   *)
(***************************************************************************)
C10_QueueHoldsBlocked ==
    Quiet => \A i \in 1..Len(waiting_queue) :
                /\ HasPCB(memory, waiting_queue[i][1])
                /\ PCBOf(memory, waiting_queue[i][1]).process_state = Blocked

\* The messages a step adds to the queue of pending messages.
Issued(type) == {i \in 1..Len(pending') : pending'[i].type = type}

\* The Tick has executed an instruction of the process on CPU c: the pc has
\* moved, or the instruction has ended the Tick with a message for c.
Advanced(c) ==
    \/ cpus'[c].cpu.pc # cpus[c].cpu.pc
    \/ \E i \in 1..Len(pending') : pending'[i].cpu = c

(***************************************************************************)
(* C11. A Tick executes one instruction on every CPU bound to a process    *)
(* and then adds one to the counter, whatever the instructions are.  The   *)
(* Tick of the code returns from inside its loop on INT 20H, INT 09H and   *)
(* on an opcode of 0: the CPUs behind are not advanced and the counter is  *)
(* left as it was.                                                         *)
(***************************************************************************)
C11_TickAdvancesAll ==
    [][(Tick /\ ~panicked')
       => /\ counter' = counter + 1
          /\ \A c \in DOMAIN cpus : cpus[c].p # None => Advanced(c)]_vars

(***************************************************************************)
(* C12. A Tick issues a Scheduler message if and only if the counter it    *)
(* leaves is a multiple of the quantum.  The Tick of the code that returns *)
(* from inside its loop issues Terminated or Blocked and no Scheduler,     *)
(* whatever the counter is.                                                *)
(***************************************************************************)
C12_SchedulerIffQuantum ==
    [][(Tick /\ ~panicked')
       => (Issued("Scheduler") # {} <=> counter' % quantum = 0)]_vars

Segments(pcb) ==
    {a \in 0..(MemorySize - 1) :
        \/ /\ pcb.code_segment <= a
           /\ a < pcb.code_segment + pcb.code_segment_size
        \/ /\ pcb.stack_segment <= a
           /\ a < pcb.stack_segment + pcb.stack_segment_size}

\* The entries of used that are the code or the stack segment of the PCB.
SegmentEntries(pcb) ==
    {<<pcb.code_segment, pcb.code_segment_size>>,
     <<pcb.stack_segment, pcb.stack_segment_size>>}

\* The processes of the table, other than p, that have not terminated.
OtherLive(mem, p) ==
    {q \in {mem.pcb_table[i][1] : i \in 1..Len(mem.pcb_table)} :
        /\ q # p
        /\ HasPCB(mem, q)
        /\ PCBOf(mem, q).process_state # Terminated}

(***************************************************************************)
(* C14. A Terminated for a CPU bound to process p leaves p's PCB in state  *)
(* Terminated with the registers the CPU had, p's code and stack segments  *)
(* out of used and their bytes zero, and the CPU unbound; the used entries *)
(* and the bytes of the segments of every other process are as they were.  *)
(* In the code a process that blocked stays bound to its CPU and can be    *)
(* dispatched to a second one, so it terminates twice: the second time its *)
(* recorded addresses belong to a process stored since, whose code is      *)
(* freed and zeroed.                                                       *)
(***************************************************************************)
C14_TerminatedFrame ==
    [][(MessageTerminated /\ ~panicked'
                          /\ HasPCB(memory, cpus[Head(pending).cpu].p))
       => LET c == Head(pending).cpu
              p == cpus[c].p
              cpu == cpus[c].cpu
              old == PCBOf(memory, p)
          IN  /\ HasPCB(memory', p)
              /\ LET pcb == PCBOf(memory', p)
                 IN  /\ pcb.process_state = Terminated
                     /\ pcb.ax = cpu.ax /\ pcb.bx = cpu.bx
                     /\ pcb.cx = cpu.cx /\ pcb.dx = cpu.dx
                     /\ pcb.ac = cpu.ac /\ pcb.pc = cpu.pc
                     /\ pcb.sp = cpu.sp /\ pcb.ir = cpu.ir
                     /\ pcb.z = cpu.z
              /\ \A i \in 1..Len(memory'.used) :
                    memory'.used[i] \notin SegmentEntries(old)
              /\ \A a \in Segments(old) :
                    memory'.data[a] = 0
              /\ cpus'[c].p = None
              /\ \A q \in OtherLive(memory, p) :
                    LET other == PCBOf(memory, q)
                    IN  /\ HasPCB(memory', q)
                        /\ PCBOf(memory', q) = other
                        /\ \A e \in SegmentEntries(other) :
                              (\E i \in 1..Len(memory.used) :
                                  memory.used[i] = e)
                              => \E i \in 1..Len(memory'.used) :
                                    memory'.used[i] = e
                        /\ \A a \in Segments(other) :
                              memory'.data[a] = memory.data[a]]_vars

InputAlone ==
    /\ config.cpu_quantity = 1
    /\ config.scheduler = "FCFS"
    /\ Len(memory.pcb_table) = 1
    /\ loaded_files # <<>> /\ loaded_files[1][1] = FileInput.name
    /\ HasPCB(memory, 1)

(***************************************************************************)
(* C16. A process that blocked on INT 09H and has been unblocked resumes   *)
(* behind the INT and does not execute the INT 09H again: with the program *)
(* INT 09H / INT 10H / INT 20H on one CPU under FCFS, a Tick taken once    *)
(* the PCB has been set Ready by Unblock issues no Blocked.  In the code   *)
(* the CPU is still bound to the process with its pc at the INT 09H, the   *)
(* Scheduler finds no idle CPU to load the PCB on, and every further Tick  *)
(* executes the INT 09H again: the process never reaches INT 10H nor       *)
(* Terminated.                                                             *)
(***************************************************************************)
C16_ResumesBehindInt ==
    [][(Tick /\ InputAlone /\ PCBOf(memory, 1).process_state = Ready
             /\ PCBOf(memory, 1).pc = PCBOf(memory, 1).code_segment + 6)
       => Issued("Blocked") = {}]_vars

\* The PCB of the k-th entry of the table is New or Ready.
ReadyAt(mem, k) ==
    /\ EntryOk(mem, mem.pcb_table[k][2], mem.pcb_table[k][3])
    /\ IsNewOrReady(EntryPCB(mem, mem.pcb_table[k][2], mem.pcb_table[k][3]))

(***************************************************************************)
(* C17. Under FCFS every Distpacher message the Scheduler issues targets a *)
(* CPU that is idle when the Scheduler runs and carries the first entry of *)
(* the PCB table whose PCB is New or Ready: FCFS preempts nothing.         *)
(***************************************************************************)
C17_FcfsFirstToIdle ==
    [][(Scheduler /\ config.scheduler = "FCFS" /\ ~panicked')
       => \A i \in Issued("Distpacher") :
             /\ cpus[pending'[i].cpu].p = None
             /\ \E k \in 1..Len(memory'.pcb_table) :
                   /\ memory'.pcb_table[k] = pending'[i].pcb
                   /\ ReadyAt(memory', k)
                   /\ \A j \in 1..(k - 1) : ~ReadyAt(memory', j)]_vars

\* C17's case: with two CPUs, one of them busy, the FCFS Scheduler has
\* issued a Distpacher for a PCB that is not the first of the table, the
\* ones before it being neither New nor Ready.
C17_Witness ==
    /\ ~panicked
    /\ config.scheduler = "FCFS"
    /\ pending # <<>> /\ Head(pending).type = "Distpacher"
    /\ Head(pending).pcb[1] > 1
    /\ cpus[Head(pending).cpu].p = None
    /\ \E c \in DOMAIN cpus : cpus[c].p # None

\* The burst and the remaining burst the diagram records for a process.
BurstOf(diag, p_id) == diag[TimingIndex(diag, p_id)].burst

RemainingOf(diag, p_id) == diag[TimingIndex(diag, p_id)].remaining_burst

(***************************************************************************)
(* C18. Under SJF every Distpacher message the Scheduler issues targets an *)
(* idle CPU and carries a New or Ready PCB whose burst is the least among  *)
(* the New and Ready PCBs; among those of the same burst it is the first   *)
(* of the PCB table.                                                       *)
(***************************************************************************)
C18_SjfLeastBurst ==
    [][(Scheduler /\ config.scheduler = "SJF" /\ ~panicked')
       => \A i \in Issued("Distpacher") :
             /\ cpus[pending'[i].cpu].p = None
             /\ \E k \in 1..Len(memory'.pcb_table) :
                   /\ memory'.pcb_table[k] = pending'[i].pcb
                   /\ ReadyAt(memory', k)
                   /\ TimingIndex(diagram', memory'.pcb_table[k][1]) # 0
                   /\ \A j \in 1..Len(memory'.pcb_table) :
                         ReadyAt(memory', j)
                         => LET mine == BurstOf(diagram',
                                                memory'.pcb_table[k][1])
                                other == BurstOf(diagram',
                                                 memory'.pcb_table[j][1])
                            IN  /\ mine <= other
                                /\ (mine = other => k <= j)]_vars

\* C18's case: the SJF Scheduler has issued a Distpacher for the second PCB
\* of the table, of burst 2, while the first one, of burst 3, is New.
C18_Witness ==
    /\ ~panicked
    /\ config.scheduler = "SJF"
    /\ pending # <<>> /\ Head(pending).type = "Distpacher"
    /\ Head(pending).pcb[1] = 2
    /\ HasPCB(memory, 1) /\ PCBOf(memory, 1).process_state = New
    /\ BurstOf(diagram, 2) < BurstOf(diagram, 1)

\* The entries of the table whose PCB is New or Ready and has a Timing.
Candidates(mem, diag) ==
    {k \in 1..Len(mem.pcb_table) :
        ReadyAt(mem, k) /\ TimingIndex(diag, mem.pcb_table[k][1]) # 0}

SmallOs == 2
UserBytes == 6
MaxRegion == 3
MaxEntries == 4

\* Memory::new(SmallOs + UserBytes, SmallOs), in an emulator that is
\* otherwise as Emulator::new leaves it.
InitMemory ==
    /\ config = [ConfigDefault(1) EXCEPT !.memory = SmallOs + UserBytes,
                                         !.os_segment = SmallOs]
    /\ cpus = CpusNew(config.cpu_quantity)
    /\ stats_data = <<>>
    /\ mode = "None"
    /\ memory = MemoryNew(config.memory, config.os_segment)
    /\ storage = StorageNew(config.storage)
    /\ display_content = <<>>
    /\ waiting_queue = <<>>
    /\ loaded_files = <<>>
    /\ diagram = <<>>
    /\ quantum = 1
    /\ counter = 0
    /\ picks = <<>>
    /\ pending = <<>>
    /\ panicked = FALSE
    /\ idle = IdleNew(memory)

\* memory.store(data, data.len()), with data of nonzero bytes.
MemoryStoreCall ==
    /\ ~panicked
    /\ \E size \in 1..MaxRegion :
          LET r == MemoryStore(memory, [i \in 1..size |-> 1], size)
          IN  /\ Len(r.memory.used) + Len(r.memory.freed) <= MaxEntries
              /\ memory' = r.memory
              /\ panicked' = r.panic
    /\ UNCHANGED <<cpus, stats_data, mode, storage, config, display_content,
                   waiting_queue, loaded_files, diagram, quantum, counter,
                   picks, pending, idle>>

\* memory.free_memory(address), for any address of the memory.
MemoryFreeCall ==
    /\ ~panicked
    /\ \E address \in DOMAIN memory.data :
          memory' = MemoryFree(memory, address)
    /\ UNCHANGED <<cpus, stats_data, mode, storage, config, display_content,
                   waiting_queue, loaded_files, diagram, quantum, counter,
                   picks, pending, panicked, idle>>

NextMemory ==
    \/ MemoryStoreCall
    \/ MemoryFreeCall

SpecMemory == InitMemory /\ [][NextMemory]_vars

\* Two regions share a byte.
Overlap(x, y) == x[1] < y[1] + y[2] /\ y[1] < x[1] + x[2]

(***************************************************************************)
(* C6.  No two entries of used overlap, and no entry of used overlaps an   *)
(* entry of freed.  Memory::store of the code pushes a reused region at    *)
(* the end of used and places the next new region behind the last entry of *)
(* used, on top of the regions that lie behind the reused one.             *)
(***************************************************************************)
C6_NoOverlap ==
    /\ \A i, j \in 1..Len(memory.used) :
          i < j => ~Overlap(memory.used[i], memory.used[j])
    /\ \A i \in 1..Len(memory.used) : \A j \in 1..Len(memory.freed) :
          ~Overlap(memory.used[i], memory.freed[j])

(***************************************************************************)
(* C7.  Every entry (address, size) of used and of freed lies in the user  *)
(* segment: os_segment_size <= address and address + size <= M.            *)
(***************************************************************************)
C7_InUserSegment ==
    \A k \in 1..(Len(memory.used) + Len(memory.freed)) :
        LET e == (memory.used \o memory.freed)[k]
        IN  /\ memory.os_segment_size <= e[1]
            /\ e[1] + e[2] <= MemLen(memory)

\* C7's case: regions have been stored, freed and reused, one at the start
\* of the user segment and one up to the last byte store gives away.
C7_Witness ==
    /\ memory.freed # <<>>
    /\ \E i \in 1..Len(memory.used) :
          memory.used[i][1] = memory.os_segment_size
    /\ \E i \in 1..Len(memory.used) :
          /\ memory.used[i][1] + memory.used[i][2] = MemLen(memory) - 1
          /\ i < Len(memory.used)

(***************************************************************************)
(* emulator/storage.rs on its own: any sequence of Storage::store_files    *)
(* calls on a small disk, and of the removals create_pcbs makes of a file  *)
(* that does not parse.  pending holds the outcome of the last call: a     *)
(* message of type "Ok" or "Err" that carries the file's name and size.    *)
(***************************************************************************)
\* The disk's size, the largest file and the most entries used and freed hold.
DiskBytes == 4
MaxFile == 2
MaxFiles == 2

\* The names of the files stored, and the bytes a file of a name holds.
FileNames == {"a", "b"}

FileBytes(name, size) ==
    [i \in 1..size |-> IF name = "a" THEN 1 ELSE 2]

\* Storage::new(DiskBytes), in an emulator that is otherwise as
\* Emulator::new leaves it.
InitStorage ==
    /\ config = [ConfigDefault(1) EXCEPT !.storage = DiskBytes]
    /\ cpus = CpusNew(config.cpu_quantity)
    /\ stats_data = <<>>
    /\ mode = "None"
    /\ memory = MemoryNew(config.memory, config.os_segment)
    /\ storage = StorageNew(config.storage)
    /\ display_content = <<>>
    /\ waiting_queue = <<>>
    /\ loaded_files = <<>>
    /\ diagram = <<>>
    /\ quantum = 1
    /\ counter = 0
    /\ picks = <<>>
    /\ pending = <<>>
    /\ panicked = FALSE
    /\ idle = IdleNew(memory)

\* storage.store_files(file_name, data.len(), data).
StoreFilesCall ==
    /\ ~panicked
    /\ \E file_name \in FileNames, size \in 1..MaxFile :
          LET r == StoreFile(storage, file_name, size,
                             FileBytes(file_name, size))
          IN  /\ Len(r.storage.used) + Len(r.storage.freed) <= MaxFiles
              /\ storage' = r.storage
              /\ panicked' = r.panic
              /\ pending' = <<Msg(IF r.ok THEN "Ok" ELSE "Err", None,
                                  <<file_name, size>>)>>
    /\ UNCHANGED <<cpus, stats_data, mode, memory, config, display_content,
                   waiting_queue, loaded_files, diagram, quantum, counter,
                   picks, idle>>

\* create_pcbs on the k-th file of storage.used, which does not parse.
StorageDropCall ==
    /\ ~panicked
    /\ \E k \in 1..Len(storage.used) :
          storage' = StorageDrop(storage, storage.used[k])
    /\ pending' = <<>>
    /\ UNCHANGED <<cpus, stats_data, mode, memory, config, display_content,
                   waiting_queue, loaded_files, diagram, quantum, counter,
                   picks, panicked, idle>>

NextStorage ==
    \/ StoreFilesCall
    \/ StorageDropCall

SpecStorage == InitStorage /\ [][NextStorage]_vars

(***************************************************************************)
(* C20. store_files never drops a file silently: when it returns Ok for    *)
(* (name, bytes), the last entry of used is (name, address, size) and the  *)
(* bytes of the disk at address are the file's; a file that is not stored  *)
(* gets Err.  In the code, when freed and used are both non-empty and no   *)
(* freed region has the file's size, store_files writes nothing, appends   *)
(* nothing and returns Ok.                                                 *)
(***************************************************************************)
C20_NeverDropped ==
    (~panicked /\ pending # <<>> /\ Head(pending).type = "Ok")
    => /\ storage.used # <<>>
       /\ LET name == Head(pending).pcb[1]
              size == Head(pending).pcb[2]
              last == storage.used[Len(storage.used)]
          IN  /\ last[1] = name
              /\ last[3] = size
              /\ last[2] + size <= StoLen(storage)
              /\ \A i \in 1..size :
                    storage.data[last[2] + i - 1] = FileBytes(name, size)[i]

(***************************************************************************)
(* C21. A store_files call that returns NotEnoughStorage leaves data, used *)
(* and freed as they were: the files stored before are intact.             *)
(***************************************************************************)
C21_ErrLeavesStorage ==
    [][(pending' # <<>> /\ Head(pending').type = "Err")
       => /\ storage'.data = storage.data
          /\ storage'.used = storage.used
          /\ storage'.freed = storage.freed]_vars

\* A second file of MaxFile bytes was refused behind a first one, whose
\* record and bytes are on the disk.
C21_Witness ==
    /\ pending # <<>>
    /\ Head(pending).type = "Err"
    /\ Head(pending).pcb[2] = MaxFile
    /\ Len(storage.used) = 1
    /\ storage.used[1][2] = 0
    /\ storage.used[1][3] = MaxFile
    /\ \A i \in 1..MaxFile :
          storage.data[i - 1] = FileBytes(storage.used[1][1], MaxFile)[i]

(***************************************************************************)
(* C22. After any sequence of store_files calls and evictions no two       *)
(* regions of Storage.used overlap.  In the code a file stored at address  *)
(* 0 of an emptied used list, or in a freed region, or behind the last     *)
(* record of used, can lie over a file that used still records.            *)
(***************************************************************************)
C22_UsedDisjoint ==
    \A i, j \in 1..Len(storage.used) :
        i # j => ~Overlap(<<storage.used[i][2], storage.used[i][3]>>,
                          <<storage.used[j][2], storage.used[j][3]>>)

(***************************************************************************)
(* C23. When create_pcbs finds a stored file that does not parse, exactly  *)
(* that file is evicted: its record moves from storage.used to             *)
(* storage.freed and its bytes are zeroed, the other records of used stay. *)
(* In the code the bytes zeroed are the offending file's, the record moved *)
(* is the first of used.                                                   *)
(***************************************************************************)
C23_EvictsOffender ==
    [][(/\ pending # <<>>
        /\ Head(pending).type = "Scheduler"
        /\ ~panicked'
        /\ storage' # storage)
       => \E k \in 1..Len(storage.used) :
             /\ ~read_file(Slice(storage.data, storage.used[k][2],
                                 storage.used[k][2] + storage.used[k][3])).ok
             /\ storage'.used = RemoveAt(storage.used, k)
             /\ storage'.freed = Append(storage.freed, storage.used[k])
             /\ storage'.data = Write(storage.data, storage.used[k][2],
                                      Zeros(storage.used[k][3]))]_vars

(***************************************************************************)
(* C24. The ids of pcb_table are strictly increasing in table order, each  *)
(* admitted PCB gets the id of the last entry plus one (1 in an empty      *)
(* table), and the last id never decreases: a step that leaves a table     *)
(* with entries only appends to the table it found.  ResetPressed, which   *)
(* empties the table, is no admission.                                     *)
(***************************************************************************)
C24_IdsIncrease ==
    [][LET old == memory.pcb_table
           new == memory'.pcb_table
       IN  /\ \A i, j \in 1..Len(new) : i < j => new[i][1] < new[j][1]
           /\ new # <<>>
              => /\ Len(new) >= Len(old)
                 /\ SubSeq(new, 1, Len(old)) = old
                 /\ \A i \in (Len(old) + 1)..Len(new) :
                       new[i][1] = (IF i = 1 THEN 0 ELSE new[i - 1][1]) + 1
                 /\ old # <<>> => new[Len(new)][1] >= old[Len(old)][1]]_vars

\* Three files were admitted and hold the ids 1, 2 and 3.
C24_Witness ==
    /\ Len(memory.pcb_table) = 3
    /\ memory.pcb_table[3][1] = 3
    /\ Len(loaded_files) = 3

(***************************************************************************)
(* C29. A taken JMP/JE/JNE with sign s and count n, executed at address a, *)
(* leaves PC at the first byte of the record n records after (s = 0) or    *)
(* before (s = 1) a: the stride is the size of one record of to_bytes,     *)
(* which is 6 bytes.  In the code the stride is 7 and the 6 of the fetch   *)
(* is added behind the jump.                                               *)
(***************************************************************************)
C29_JumpStride ==
    [][(/\ pending = <<>>
        /\ mode # "None"
        /\ counter' = counter + 1
        /\ ~panicked')
       => \A c \in DOMAIN cpus :
             LET a == cpus[c].cpu.pc
                 taken(bytes) ==
                     /\ bytes[2] = 1
                     /\ bytes[3] \in {0, 1}
                     /\ \/ bytes[1] = JMP
                        \/ bytes[1] = JE /\ cpus[c].cpu.z
                        \/ bytes[1] = JNE /\ ~cpus[c].cpu.z
                 record == Len(to_bytes(<<[operation |-> JMP,
                                           operands |-> V1(0, 1)]>>))
             IN  (/\ cpus[c].p # None
                  /\ a + 6 <= MemLen(memory)
                  /\ taken(Slice(memory.data, a + 1, a + 6)))
                 => LET n == memory.data[a + 3]
                    IN  cpus'[c].cpu.pc =
                            IF memory.data[a + 2] = 0 THEN a + record * n
                            ELSE a - record * n]_vars

(***************************************************************************)
(* C30. While mode is set (Manual or Automatic) no event changes the       *)
(* configured discipline, a SchedulerSelected event included: from the     *)
(* first Distpacher, which sets the mode, to the next ResetPressed, which  *)
(* clears it, config.scheduler stays what it was.                          *)
(***************************************************************************)
C30_DisciplineKept ==
    [][mode # "None" => config'.scheduler = config.scheduler]_vars

\* A discipline other than the default was selected, a process was
\* dispatched and the mode switched; SchedulerSelected is offered here.
C30_Witness ==
    /\ mode = "Automatic"
    /\ config.scheduler = "SRT"
    /\ pending = <<>>
    /\ ~panicked

(***************************************************************************)
(* emulator/instruction.rs and emulator/pcb.rs on their own: the           *)
(* conversions applied to an instruction, a program or a PCB.  pending     *)
(* holds the call: a message whose type names the conversion and whose pcb *)
(* field is the record [input, pad, panic, output]; the type ends in       *)
(* "Input" until the conversion is applied.                                *)
(***************************************************************************)
\* from_bytes, from index i (counted from 0) on.  &bytes[(i + 1)..(i + len)]
\* panics when the range is not ordered (len = 0) or leaves the slice, and
\* Instruction::from panics on a record it cannot read.
RECURSIVE FromBytesLoop(_, _, _)
FromBytesLoop(bytes, i, instructions) ==
    IF ~(i < Len(bytes)) THEN [panic |-> FALSE, value |-> instructions]
    ELSE LET len == bytes[i + 1]
             test == SubSeq(bytes, i + 2, i + len)
         IN  IF i + 1 > i + len \/ i + len > Len(bytes)
             THEN [panic |-> TRUE, value |-> <<>>]
             ELSE IF ~InstructionFromOk(test)
             THEN [panic |-> TRUE, value |-> <<>>]
             ELSE FromBytesLoop(bytes, i + len,
                                Append(instructions, InstructionFrom(test)))

\* A from_bytes that reads the first record only (not what the code does).
FromBytesFirst(bytes) ==
    IF bytes = <<>> THEN [panic |-> FALSE, value |-> <<>>]
    ELSE [panic |-> FALSE,
          value |-> <<InstructionFrom(SubSeq(bytes, 2, bytes[1]))>>]

\* from_bytes.
from_bytes(bytes) == FromBytesLoop(bytes, 0, <<>>)

\* The 8-bit payloads, the most records of a program and the most zero
\* bytes behind it.
Payloads == {0, 1, 7, 255}
MaxProgram == 2
MaxPad == 2

\* Every operand variant over the registers, the interrupts and Payloads.
AllOperands ==
    {V0}
    \cup {V1(s, n) : s \in Payloads, n \in Payloads}
    \cup {V2(r) : r \in AX..DX}
    \cup {V3(i) : i \in H09..H20}
    \cup {V4(p1, p2, p3) : p1 \in Payloads, p2 \in Payloads, p3 \in Payloads}
    \cup {V5(r, n) : r \in AX..DX, n \in Payloads}
    \cup {V6(r1, r2) : r1 \in AX..DX, r2 \in AX..DX}

\* Every well-formed instruction: the 16 operations on every operand.
AllInstructions ==
    {[operation |-> op, operands |-> o] : op \in PARAM..POP, o \in AllOperands}

\* The instructions the programs are made of: one of every variant.
ProgramInstructions ==
    { [operation |-> INT, operands |-> V3(H20)],
      [operation |-> JMP, operands |-> V1(1, 1)],
      [operation |-> INC, operands |-> V0],
      [operation |-> PUSH, operands |-> V2(AX)],
      [operation |-> PARAM, operands |-> V4(1, 0, 255)],
      [operation |-> MOV, operands |-> V5(AX, 0)],
      [operation |-> POP, operands |-> V6(DX, BX)] }

Programs ==
    UNION {[1..n -> ProgramInstructions] : n \in 0..MaxProgram}

\* PCBs over small and large ids, addresses and program counters, every
\* process state, and IR none, the first and the last operation.
AllPCBs ==
    {[PCBNew(id) EXCEPT !.code_segment = address,
                        !.code_segment_size = size,
                        !.pc = pc,
                        !.process_state = state,
                        !.dx = dx,
                        !.ir = ir,
                        !.z = z] :
        id \in {0, 1, 256}, address \in {0, 70, 258}, size \in {18, 256},
        pc \in {0, 70, 300}, state \in New..Terminated, dx \in {0, 255},
        ir \in {None, PARAM, POP}, z \in BOOLEAN}

Call(type, input, pad, panic, output) ==
    Msg(type, None, [input |-> input, pad |-> pad, panic |-> panic,
                     output |-> output])

\* An emulator as Emulator::new leaves it, and the call to make: of every
\* instruction, of every program with every padding, or of every PCB.
InitCodec ==
    /\ config = ConfigDefault(1)
    /\ cpus = CpusNew(config.cpu_quantity)
    /\ stats_data = <<>>
    /\ mode = "None"
    /\ memory = MemoryNew(config.memory, config.os_segment)
    /\ storage = StorageNew(config.storage)
    /\ display_content = <<>>
    /\ waiting_queue = <<>>
    /\ loaded_files = <<>>
    /\ diagram = <<>>
    /\ quantum = 1
    /\ counter = 0
    /\ picks = <<>>
    /\ \/ \E i \in AllInstructions :
             pending = <<Call("InstructionInput", i, 0, FALSE, <<>>)>>
       \/ \E l \in Programs, pad \in 0..MaxPad :
             pending = <<Call("ProgramInput", l, pad, FALSE, <<>>)>>
       \/ \E p \in AllPCBs :
             pending = <<Call("PCBInput", p, 0, FALSE, <<>>)>>
    /\ panicked = FALSE
    /\ idle = IdleNew(memory)

\* Instruction::from(&Vec::<u8>::from(instruction)[..]).
InstructionCall ==
    /\ Head(pending).type = "InstructionInput"
    /\ LET instruction == Head(pending).pcb.input
           bytes == InstructionInto(instruction)
       IN  pending' =
                 <<Call("Instruction", instruction, 0,
                        ~InstructionFromOk(bytes),
                        IF InstructionFromOk(bytes)
                        THEN <<InstructionFrom(bytes)>> ELSE <<>>)>>
    /\ UNCHANGED <<cpus, stats_data, mode, memory, storage, config,
                   display_content, waiting_queue, loaded_files, diagram,
                   quantum, counter, picks, panicked, idle>>

\* from_bytes of to_bytes(instructions) followed by pad zero bytes.
ProgramCall ==
    /\ Head(pending).type = "ProgramInput"
    /\ LET instructions == Head(pending).pcb.input
           pad == Head(pending).pcb.pad
           r == from_bytes(to_bytes(instructions) \o Zeros(pad))
       IN  pending' = <<Call("Program", instructions, pad, r.panic,
                             r.value)>>
    /\ UNCHANGED <<cpus, stats_data, mode, memory, storage, config,
                   display_content, waiting_queue, loaded_files, diagram,
                   quantum, counter, picks, panicked, idle>>

\* PCB::from(&Vec::<u8>::from(pcb)[..]).
PCBCall ==
    /\ Head(pending).type = "PCBInput"
    /\ LET pcb == Head(pending).pcb.input
           bytes == PCBInto(pcb)
       IN  pending' =
                 <<Call("PCB", pcb, 0, ~PCBFromOk(bytes),
                        IF PCBFromOk(bytes) THEN <<PCBFrom(bytes)>>
                        ELSE <<>>)>>
    /\ UNCHANGED <<cpus, stats_data, mode, memory, storage, config,
                   display_content, waiting_queue, loaded_files, diagram,
                   quantum, counter, picks, panicked, idle>>

NextCodec ==
    \/ InstructionCall
    \/ ProgramCall
    \/ PCBCall

SpecCodec == InitCodec /\ [][NextCodec]_vars

\* The last call, when it was of the given conversion.
Called(type) == pending # <<>> /\ Head(pending).type = type

(***************************************************************************)
(* C25. For every well-formed instruction i, decoding the bytes of its     *)
(* encoding returns, and yields i.                                         *)
(***************************************************************************)
C25_InstructionRoundTrip ==
    Called("Instruction")
    => /\ ~Head(pending).pcb.panic
       /\ Head(pending).pcb.output = <<Head(pending).pcb.input>>

\* A PARAM of three payloads, the last not zero, went through.
C25_Witness ==
    /\ Called("Instruction")
    /\ Head(pending).pcb.input.operation = PARAM
    /\ Head(pending).pcb.input.operands = V4(1, 7, 255)
    /\ Head(pending).pcb.output # <<>>

(***************************************************************************)
(* C26. For every list L of well-formed instructions, the empty list       *)
(* included, from_bytes(to_bytes(L)) returns and yields L.                 *)
(***************************************************************************)
C26_ProgramRoundTrip ==
    (Called("Program") /\ Head(pending).pcb.pad = 0)
    => /\ ~Head(pending).pcb.panic
       /\ Head(pending).pcb.output = Head(pending).pcb.input

\* A program of MaxProgram different records went through.
C26_Witness ==
    /\ Called("Program")
    /\ Head(pending).pcb.pad = 0
    /\ Len(Head(pending).pcb.input) = MaxProgram
    /\ Head(pending).pcb.input[1] # Head(pending).pcb.input[MaxProgram]
    /\ Len(Head(pending).pcb.output) = MaxProgram

(***************************************************************************)
(* C27. For every PCB p, deserializing the serialized bytes of p returns   *)
(* and yields p.  In the code every zero byte of a usize is dropped, so    *)
(* 256 comes back as 1, and maybe_from reads the code of POP as no         *)
(* operation.                                                              *)
(***************************************************************************)
C27_PCBRoundTrip ==
    Called("PCB")
    => /\ ~Head(pending).pcb.panic
       /\ Head(pending).pcb.output = <<Head(pending).pcb.input>>

(***************************************************************************)
(* C28. from_bytes stops at the first length byte equal to 0: for every    *)
(* list L and every number n >= 0 of zero bytes behind to_bytes(L) it      *)
(* returns L without failing.  In the code a length byte of 0 makes the    *)
(* range of the record's slice start behind its end, which panics.         *)
(***************************************************************************)
C28_ZeroPadding ==
    Called("Program")
    => /\ ~Head(pending).pcb.panic
       /\ Head(pending).pcb.output = Head(pending).pcb.input

(***************************************************************************)
(* C31. After a ResetPressed the core state is the state after             *)
(* construction: zeroed memory and storage, empty tables, lists and        *)
(* queues, every CPU unbound and cleared, counter 0, mode unset, and the   *)
(* quantum and the statistics at their initial values.  ResetPressed is    *)
(* the only event that unsets a mode; the code leaves quantum and          *)
(* stats_data as they were.                                                *)
(***************************************************************************)
C31_ResetRestores ==
    [][(mode # "None" /\ mode' = "None")
       => /\ memory' = MemoryNew(config.memory, config.os_segment)
          /\ storage' = StorageNew(config.storage)
          /\ cpus' = CpusNew(config.cpu_quantity)
          /\ display_content' = <<>>
          /\ waiting_queue' = <<>>
          /\ loaded_files' = <<>>
          /\ diagram' = <<>>
          /\ counter' = 0
          /\ quantum' = 1
          /\ stats_data' = <<>>]_vars

(***************************************************************************)
(* C32. A runtime fault of process p converts p to Terminated and never    *)
(* changes the memory of another process.  The fault taken here is a PUSH  *)
(* whose SP lies outside the stack segment of p: the Tick must not write   *)
(* at SP, and the CPU of p either was not reached by the Tick or issues    *)
(* Terminated.  In the code PUSH checks nothing: the register is written   *)
(* at memory.data[SP], the bytes of the first PCB when SP is 0, and the    *)
(* process runs on.                                                        *)
(***************************************************************************)
C32_FaultTerminates ==
    [][(Tick /\ ~panicked')
       => \A c \in DOMAIN cpus :
             (/\ cpus[c].p # None
              /\ HasPCB(memory, cpus[c].p)
              /\ cpus[c].cpu.pc + 6 <= MemLen(memory)
              /\ memory.data[cpus[c].cpu.pc + 1] = PUSH
              /\ memory.data[cpus[c].cpu.pc + 2] = 2
              /\ cpus[c].cpu.sp < MemLen(memory)
              /\ LET pcb == PCBOf(memory, cpus[c].p)
                 IN  ~(/\ pcb.stack_segment <= cpus[c].cpu.sp
                       /\ cpus[c].cpu.sp
                             < pcb.stack_segment + pcb.stack_segment_size))
             => /\ memory'.data[cpus[c].cpu.sp] = memory.data[cpus[c].cpu.sp]
                /\ \/ cpus'[c] = cpus[c]
                   \/ pending' = <<Msg("Terminated", c, <<>>)>>]_vars

(***************************************************************************)
(* main.rs, create_pcbs in a small memory: the files of a script are       *)
(* stored and the Scheduler admits them, in configurations whose OS        *)
(* segment holds one or three PCBs and whose user memory holds from none   *)
(* to all of the segments.                                                 *)
(***************************************************************************)
\* config.os_segment and config.memory - config.os_segment.
OsSegments == {23, 70}
UserSizes == 6..50

InitAdmission ==
    /\ \E o \in OsSegments, u \in UserSizes :
          config = [ConfigDefault(1) EXCEPT !.os_segment = o,
                                            !.memory = o + u]
    /\ cpus = CpusNew(config.cpu_quantity)
    /\ stats_data = <<>>
    /\ mode = "None"
    /\ memory = MemoryNew(config.memory, config.os_segment)
    /\ storage = StorageNew(config.storage)
    /\ display_content = <<>>
    /\ waiting_queue = <<>>
    /\ loaded_files = <<>>
    /\ diagram = <<>>
    /\ quantum = 1
    /\ counter = 0
    /\ picks \in Scripts
    /\ pending = <<>>
    /\ panicked = FALSE
    /\ idle = IdleNew(memory)

NextAdmission ==
    \/ StoreFiles
    \/ Scheduler
    \/ DialogResult

SpecAdmission == InitAdmission /\ [][NextAdmission]_vars

\* The files of storage.used that parse and are not loaded.
NotAdmitted(sto, loaded) ==
    {k \in 1..Len(sto.used) :
        /\ read_file(Slice(sto.data, sto.used[k][2],
                           sto.used[k][2] + sto.used[k][3])).ok
        /\ \A i \in 1..Len(loaded) : loaded[i][1] # sto.used[k][1]}

(***************************************************************************)
(* C33. Admission is all-or-nothing and never aborts: a Scheduler event    *)
(* returns, every file it admits gets a code segment, a stack segment, a   *)
(* PCB and a Timing, and a file that parses and is not admitted leaves a   *)
(* warning.  In the code a stack or a PCB that cannot be stored is a       *)
(* todo!(), and a file the gate of free_size refuses is skipped without a  *)
(* warning.                                                                *)
(***************************************************************************)
C33_AdmissionAllOrNothing ==
    [][(pending # <<>> /\ Head(pending).type = "Scheduler")
       => /\ ~panicked'
          /\ Len(memory'.used) = 2 * Len(memory'.pcb_table)
          /\ Len(diagram') = Len(memory'.pcb_table)
          /\ Len(loaded_files') = Len(memory'.pcb_table)
          /\ NotAdmitted(storage', loaded_files') # {}
             => Issued("DialogResult") # {}]_vars

(***************************************************************************)
(* main.rs, Message::Tick, decode and execute on its own: one CPU runs a   *)
(* short program from a drawn register file.  pending holds the call: the  *)
(* program and the CPU it started from; counter is the number of           *)
(* instructions executed.                                                  *)
(***************************************************************************)
\* PUSH r / POP r' and CMP r, r' over every pair of registers.
ExecutePrograms ==
    {<<[operation |-> PUSH, operands |-> V2(r1)],
       [operation |-> POP, operands |-> V2(r2)]>> :
        r1 \in AX..DX, r2 \in AX..DX}
    \cup {<<[operation |-> CMP, operands |-> V6(r1, r2)]>> :
             r1 \in AX..DX, r2 \in AX..DX}

\* The register files a program starts from: SP at address 0, where a new
\* PCB leaves it, or inside the user memory.
ExecuteCpus ==
    {[CPUNew EXCEPT !.ax = ax, !.bx = bx, !.cx = 3, !.dx = dx, !.z = z,
                    !.sp = sp] :
        ax \in {1, 2}, bx \in {1, 2}, dx \in {2, 5}, z \in BOOLEAN,
        sp \in {0, 100}}

\* The byte the memory is filled with before the program runs.
ExecuteFills == {0, 9}

InitExecute ==
    /\ config = ConfigDefault(1)
    /\ \E cpu \in ExecuteCpus, program \in ExecutePrograms :
          /\ cpus = [c \in {0} |-> [cpu |-> cpu, p |-> 1]]
          /\ pending = <<Msg("Execute", 0, [program |-> program,
                                            cpu |-> cpu])>>
    /\ stats_data = <<>>
    /\ mode = "Manual"
    /\ \E fill \in ExecuteFills :
          memory = [MemoryNew(config.memory, config.os_segment) EXCEPT
                       !.data = [i \in 0..(config.memory - 1) |-> fill]]
    /\ storage = StorageNew(config.storage)
    /\ display_content = <<>>
    /\ waiting_queue = <<>>
    /\ loaded_files = <<>>
    /\ diagram = <<>>
    /\ quantum = 1
    /\ counter = 0
    /\ picks = <<>>
    /\ panicked = FALSE
    /\ idle = IdleNew(memory)

\* cpu.ir = Some(instruction.operation); match instruction.operation ...;
\* cpu.pc += 6, of the next instruction of the program.
ExecuteCall ==
    /\ ~panicked
    /\ counter < Len(Head(pending).pcb.program)
    /\ \E wrap \in BOOLEAN :
          LET instruction == Head(pending).pcb.program[counter + 1]
              r == Execute([cpus[0].cpu EXCEPT !.ir = instruction.operation],
                           memory.data, display_content, config.memory,
                           instruction, wrap)
          IN  IF r.panic
              THEN /\ panicked' = TRUE
                   /\ UNCHANGED <<cpus, memory, display_content, counter>>
              ELSE /\ cpus' = [cpus EXCEPT
                                  ![0].cpu = [r.cpu EXCEPT !.pc = r.cpu.pc + 6]]
                   /\ memory' = [memory EXCEPT !.data = r.data]
                   /\ display_content' = r.display
                   /\ counter' = counter + 1
                   /\ UNCHANGED panicked
    /\ UNCHANGED <<stats_data, mode, storage, config, waiting_queue,
                   loaded_files, diagram, quantum, picks, pending, idle>>

NextExecute == ExecuteCall

SpecExecute == InitExecute /\ [][NextExecute]_vars

\* The program has run to its end, and it began with the given operation.
Executed(operation) ==
    /\ ~panicked
    /\ counter = Len(Head(pending).pcb.program)
    /\ Head(pending).pcb.program[1].operation = operation

(***************************************************************************)
(* C34. PUSH r immediately followed by POP r' leaves r' equal to the value *)
(* r held at the PUSH and SP equal to its value before the PUSH.  In the   *)
(* code POP reads memory.data[SP] before it decrements SP: it reads the    *)
(* byte behind the one PUSH wrote.                                         *)
(***************************************************************************)
C34_PushPopInverse ==
    Executed(PUSH)
    => LET call == Head(pending).pcb
       IN  /\ RegGet(cpus[0].cpu, call.program[2].operands.a)
                 = RegGet(call.cpu, call.program[1].operands.a)
           /\ cpus[0].cpu.sp = call.cpu.sp

(***************************************************************************)
(* C35. CMP r, r' leaves Z true if and only if the two registers hold      *)
(* equal values, for every pair of registers, r = r' included, and every   *)
(* prior Z.  In the code the match has no arm for r = r': Z keeps its      *)
(* prior value.                                                            *)
(***************************************************************************)
C35_CmpSetsZ ==
    Executed(CMP)
    => LET call == Head(pending).pcb
       IN  cpus[0].cpu.z
              = (RegGet(call.cpu, call.program[1].operands.a)
                    = RegGet(call.cpu, call.program[1].operands.b))


(***************************************************************************)
(* The parser on PARAM lines: a line of the word PARAM followed by zero to *)
(* MaxOperands integers is drawn initially and ReadFileCall parses it.     *)
(***************************************************************************)
MaxOperands == 4
ParamValues == {0, 7, 255}

\* The decimal text of n, as a source file writes it.
RECURSIVE DecimalText(_)
DecimalText(n) ==
    IF n < 10 THEN <<48 + n>>
    ELSE DecimalText(n \div 10) \o <<48 + (n % 10)>>

\* The line PARAM v1 v2 ..
RECURSIVE ParamLine(_)
ParamLine(values) ==
    IF values = <<>> THEN StrPARAM
    ELSE ParamLine(SubSeq(values, 1, Len(values) - 1))
            \o Sp \o DecimalText(values[Len(values)])

ParamInputs ==
    UNION {[1..n -> ParamValues] : n \in 0..MaxOperands}

InitParser ==
    /\ config = ConfigDefault(1)
    /\ cpus = CpusNew(config.cpu_quantity)
    /\ stats_data = <<>>
    /\ mode = "None"
    /\ memory = MemoryNew(config.memory, config.os_segment)
    /\ storage = StorageNew(config.storage)
    /\ display_content = <<>>
    /\ waiting_queue = <<>>
    /\ loaded_files = <<>>
    /\ diagram = <<>>
    /\ quantum = 1
    /\ counter = 0
    /\ picks = <<>>
    /\ \E values \in ParamInputs :
          pending = <<Call("ReadFileInput", values, 0, FALSE, <<>>)>>
    /\ panicked = FALSE
    /\ idle = IdleNew(memory)

\* read_file(stream) on the drawn line.
ReadFileCall ==
    /\ Head(pending).type = "ReadFileInput"
    /\ LET values == Head(pending).pcb.input
           r == read_file(ParamLine(values))
       IN  pending' = <<Call("ReadFile", values, 0, r.panic, r)>>
    /\ UNCHANGED <<cpus, stats_data, mode, memory, storage, config,
                   display_content, waiting_queue, loaded_files, diagram,
                   quantum, counter, picks, panicked, idle>>

NextParser == ReadFileCall

SpecParser == InitParser /\ [][NextParser]_vars

\* The operand at position k of a PARAM line, 0 when the line has none.
ParamOr0(values, k) == IF k <= Len(values) THEN values[k] ELSE 0

(***************************************************************************)
(* C36. A PARAM line with one, two or three integers in 0..255 parses to   *)
(* V4(p1, p2, p3) with 0 for each missing operand; with zero or more than  *)
(* three operands read_file returns an error and does not abort.  In the   *)
(* code operators[1] and operators[2] are indexed whatever the length: a   *)
(* line with one or two operands aborts.                                   *)
(***************************************************************************)
C36_ParamDefaults ==
    Called("ReadFile")
    => LET values == Head(pending).pcb.input
           r == Head(pending).pcb.output
       IN  IF Len(values) \in 1..3
           THEN /\ r.ok
                /\ r.value = <<[operation |-> PARAM,
                                operands |-> V4(ParamOr0(values, 1),
                                                ParamOr0(values, 2),
                                                ParamOr0(values, 3))]>>
           ELSE ~r.panic /\ ~r.ok


(***************************************************************************)
(* A program that loops: six instructions and a JMP back over them.  The   *)
(* JMP of the code moves pc by seven bytes for each unit of its operand    *)
(* and the step then adds six, so JMP -6 at the seventh instruction lands  *)
(* on the first.  One CPU runs the program under FCFS for MaxLoopTicks     *)
(* Ticks.                                                                  *)
(***************************************************************************)
MaxLoopTicks == 9

\* The first line of the loop.
LoopHeads ==
    { StrINC, StrINC \o Sp \o StrAX, StrMOV \o Sp \o StrBX \o Sp \o <<55>>,
      StrSWAP \o Sp \o StrAX \o Sp \o StrBX }

\* head / INC / INC / INC / INC / INC / JMP -6
FileLoop(head) ==
    [name |-> "loop",
     data |-> head \o Nl \o StrINC \o Nl \o StrINC \o Nl \o StrINC \o Nl
              \o StrINC \o Nl \o StrINC \o Nl
              \o StrJMP \o Sp \o <<45, 54>>]

InitLoop ==
    /\ config = ConfigDefault(1)
    /\ cpus = CpusNew(config.cpu_quantity)
    /\ stats_data = <<>>
    /\ mode = "None"
    /\ memory = MemoryNew(config.memory, config.os_segment)
    /\ storage = StorageNew(config.storage)
    /\ display_content = <<>>
    /\ waiting_queue = <<>>
    /\ loaded_files = <<>>
    /\ diagram = <<>>
    /\ quantum = 1
    /\ counter = 0
    /\ \E head \in LoopHeads : picks = << <<FileLoop(head)>> >>
    /\ pending = <<>>
    /\ panicked = FALSE
    /\ idle = IdleNew(memory)

LoopTick == TickWithin(MaxLoopTicks)

NextLoop ==
    \/ StoreFiles
    \/ Scheduler
    \/ Distpacher
    \/ ChangeMode
    \/ LoopTick

SpecLoop == InitLoop /\ [][NextLoop]_vars

(***************************************************************************)
(* C37. Every process of the diagram has 0 <= remaining_burst <= burst,    *)
(* and a Tick that runs to its end takes exactly 1 from the                *)
(* remaining_burst of every process bound to a CPU.  In the code           *)
(* remaining_burst starts at the number of instructions of the program and *)
(* is decremented unchecked: a loop executes more instructions than that   *)
(* and the decrement at 0 wraps round (or aborts, in a build that checks). *)
(***************************************************************************)
C37_BurstDecrements ==
    [][/\ \A t \in DOMAIN diagram' :
             /\ 0 <= diagram'[t].remaining_burst
             /\ diagram'[t].remaining_burst <= diagram'[t].burst
       /\ (LoopTick /\ ~panicked' /\ counter' = counter + 1)
          => \A c \in DOMAIN cpus :
                \A t \in DOMAIN diagram :
                   diagram[t].p_id = cpus[c].p
                   => diagram'[t].remaining_burst
                         = diagram[t].remaining_burst - 1]_vars


\* The ids of the PCB table whose PCB is in the given state.
IdsInState(mem, state) ==
    {mem.pcb_table[i][1] : i \in
        {j \in 1..Len(mem.pcb_table) :
            /\ HasPCB(mem, mem.pcb_table[j][1])
            /\ PCBOf(mem, mem.pcb_table[j][1]).process_state = state}}

(***************************************************************************)
(* C38. No process is bound to two CPUs at once, and the PCBs in state     *)
(* Running are no more than the CPUs.  In the code a process that blocked  *)
(* on INT 09H stays bound to its CPU; once unblocked it is Ready and the   *)
(* Scheduler loads it on a second CPU.                                     *)
(***************************************************************************)
C38_OneCpuEach ==
    /\ \A c, d \in DOMAIN cpus :
          (c # d /\ cpus[c].p # None) => cpus[c].p # cpus[d].p
    /\ Cardinality(IdsInState(memory, Running)) <= config.cpu_quantity


(***************************************************************************)
(* C39. Terminated is absorbing: a Tick, Scheduler, Distpacher, Blocked,   *)
(* Unblock or Terminated taken while the PCB of p is Terminated leaves it  *)
(* Terminated, binds p to no CPU it was not bound to, and is not a         *)
(* Terminated for a CPU bound to p.  In the code a process bound to two    *)
(* CPUs terminates on one and stays bound to the other, whose next fetch   *)
(* reads the zeroed code and terminates it again.                          *)
(***************************************************************************)
C39_TerminatedAbsorbing ==
    [][((Tick \/ Scheduler \/ Distpacher \/ MessageBlocked \/ Unblock
              \/ MessageTerminated) /\ ~panicked')
       => \A p \in IdsInState(memory, Terminated) :
             /\ p \in IdsInState(memory', Terminated)
             /\ \A c \in DOMAIN cpus : cpus'[c].p = p => cpus[c].p = p
             /\ ~(MessageTerminated /\ cpus[Head(pending).cpu].p = p)]_vars


(***************************************************************************)
(* FCFS on straight-line programs with Ticks that keep occurring: one      *)
(* StoreFiles admits the files of a script, and the runtime delivers every *)
(* message a handler returns; the timer of the Automatic mode, or the user *)
(* on the Next button, keeps the Ticks coming.                             *)
(***************************************************************************)
MaxLiveTicks == 8

\* What the user picks: files with no JMP, JE, JNE and no INT 09H.
LiveScripts ==
    { << <<FilePlain, FileShort>> >>,
      << <<FileShort, FilePush>> >>,
      << <<FileHalt, FilePlain>> >>,
      << <<FilePlain, FilePush, FileShort>> >> }

InitLive ==
    /\ \E n \in CpuQuantities : config = ConfigDefault(n)
    /\ cpus = CpusNew(config.cpu_quantity)
    /\ stats_data = <<>>
    /\ mode = "None"
    /\ memory = MemoryNew(config.memory, config.os_segment)
    /\ storage = StorageNew(config.storage)
    /\ display_content = <<>>
    /\ waiting_queue = <<>>
    /\ loaded_files = <<>>
    /\ diagram = <<>>
    /\ quantum = 1
    /\ counter = 0
    /\ picks \in LiveScripts
    /\ pending = <<>>
    /\ panicked = FALSE
    /\ idle = IdleNew(memory)

LiveTick == TickWithin(MaxLiveTicks)

NextLive ==
    \/ StoreFiles
    \/ Scheduler
    \/ Distpacher
    \/ MessageTerminated
    \/ ChangeMode
    \/ LiveTick

SpecLive ==
    /\ InitLive
    /\ [][NextLive]_vars
    /\ WF_vars(Scheduler)
    /\ WF_vars(Distpacher)
    /\ WF_vars(MessageTerminated)
    /\ WF_vars(LiveTick)

\* The ids of the PCB table.
TableIds(mem) == {mem.pcb_table[i][1] : i \in 1..Len(mem.pcb_table)}

\* Every process of the PCB table is Terminated and no CPU is bound.
AllTerminated ==
    /\ TableIds(memory) = IdsInState(memory, Terminated)
    /\ \A c \in DOMAIN cpus : cpus[c].p = None

\* On one CPU the Terminated processes are a prefix of the PCB table.
InTableOrder ==
    config.cpu_quantity = 1
    => \A i, j \in 1..Len(memory.pcb_table) :
          (i < j /\ memory.pcb_table[j][1] \in IdsInState(memory, Terminated))
          => memory.pcb_table[i][1] \in IdsInState(memory, Terminated)

(***************************************************************************)
(* C40. Under FCFS with straight-line programs and Ticks that keep         *)
(* occurring, every admitted process is eventually Terminated and every    *)
(* CPU idle, and on one CPU the processes terminate in the order of the    *)
(* PCB table.  A handler that aborts ends the run for good, whatever the   *)
(* fairness: the formula states what a finite run can refute, that no      *)
(* abort is reached while a process is not Terminated or a CPU is bound,   *)
(* and that on one CPU the Terminated processes are a prefix of the table. *)
(* In the code PUSH writes at SP = 0, into the PCB of the first process,   *)
(* and the Scheduler that reads that PCB next aborts.                      *)
(***************************************************************************)
C40_AllTerminate ==
    /\ panicked => AllTerminated
    /\ InTableOrder

====
